---- MODULE Spec2Model ----
(***************************************************************************)
(* Model of the tier-0 discovery pipeline:                                 *)
(*   network_discovery.py   NetworkDiscovery   (discovery engine)          *)
(*   hardware_analyzer.py   HardwareAssessment (assessment engine)         *)
(*   generate_inventory.py  InventoryGenerator (classifier and inventory)  *)
(* Text (hostnames, IP addresses, host keys) is a sequence of one-letter   *)
(* strings, so that splitting, replacing and prefixing are computed.       *)
(***************************************************************************)
EXTENDS Integers, Sequences, FiniteSets, TLC

VARIABLES
    \* ---- InventoryGenerator._safe_hostname applied to one input ----
    hn_in,          \* the hostname argument: [kind, s]
    hn_ip,          \* the ip_address argument (text)
    hn_out,         \* result of the first call
    hn_out2,        \* result of the call on the first result
    hn_pc,          \* "in" | "once" | "twice" | "idle"
    \* ---- NetworkDiscovery and its main() ----
    NMAP_AVAILABLE,     \* python-nmap could be imported
    SCAPY_AVAILABLE,    \* scapy could be imported
    lease_file_exists,  \* a DHCP lease file is found
    subnet,             \* self.subnet: [addr, prefix]
    d_run,              \* the methods main() was asked to run
    discovered_devices, \* self.discovered_devices
    d_reports,          \* history: every record a method produced, in order
    d_ret,              \* what the last method call returned
    d_probes,           \* history: the targets the ARP scan probed, and the
                        \* target whose probe raised
    d_artifact,         \* the saved discovery file, or NoFile
    d_pc,               \* main(): "nmap" | "arp" | "dhcp" | "finish" | "done" | "idle"
    \* ---- HardwareAssessment and its main() ----
    PARAMIKO_AVAILABLE, \* paramiko could be imported
    WMI_AVAILABLE,      \* wmi and win32com could be imported
    devices,            \* self.devices: the loaded inventory entries
    assessed_devices,   \* self.assessed_devices
    a_idx,              \* the entry the loop of assess_all_devices handles next
    a_last,             \* history: what the last handled entry met and tried
    a_outcomes,         \* history: how each handled entry ended
    a_artifact,         \* the saved assessment file, or NoFile
    a_pc,               \* "loop" | "returned" | "crashed" | "done" | "idle"
    \* ---- InventoryGenerator.generate_inventory ----
    g_devices,          \* self.discovered_devices of the generator
    inventory,          \* self.inventory: group path -> (host key -> variables)
    g_idx,              \* the device the loop of generate_inventory handles next
    g_log,              \* history: what became of each handled device
    g_pc,               \* "loop" | "returned" | "crashed" | "idle"
    \* ---- locating and loading the input file (both entry points) ----
    in_entry,           \* the entry point run: "assessment" | "inventory"
    input_dir_exists,   \* the generator's input_dir exists
    dir_files,          \* the files at hand: name -> [mtime, content]
    arg_file,           \* --inventory-file, or NoPath when not given
    inventory_file,     \* self.inventory_file, once located
    in_devices,         \* what was loaded: "unset" | "empty" | "devices"
    in_loaded,          \* what load_discovered_devices returned
    exit_status,        \* "running" | "zero" | "nonzero"
    in_pc,              \* "find" | "load" | "main" | "assessing" | "generating"
                        \* | "exited" | "idle"
    \* ---- the classifier applied to one device ----
    c_device,           \* the device classified
    c_os_type,          \* what _determine_os_type returned, or "raised"
    c_role,             \* what _determine_device_role returned, or "raised"
    c_pc,               \* "os" | "role" | "done" | "idle"
    \* ---- one assessment method applied to one host ----
    p_method,           \* "ssh" | "basic_scan" | "none"
    p_connect,          \* ssh.connect goes through
    p_queries,          \* what each command of the SSH assessment meets
    p_env,              \* what the host answers to ping and port checks
    p_result,           \* what the method returned
    p_pc                \* "call" | "done" | "idle"

hn_vars == <<hn_in, hn_ip, hn_out, hn_out2, hn_pc>>

d_vars == <<NMAP_AVAILABLE, SCAPY_AVAILABLE, lease_file_exists, subnet, d_run,
            discovered_devices, d_reports, d_ret, d_probes, d_artifact, d_pc>>

a_vars == <<PARAMIKO_AVAILABLE, WMI_AVAILABLE, devices, assessed_devices,
            a_idx, a_last, a_outcomes, a_artifact, a_pc>>

g_vars == <<g_devices, inventory, g_idx, g_log, g_pc>>

in_vars == <<in_entry, input_dir_exists, dir_files, arg_file, inventory_file,
             in_devices, in_loaded, exit_status, in_pc>>

c_vars == <<c_device, c_os_type, c_role, c_pc>>

p_vars == <<p_method, p_connect, p_queries, p_env, p_result, p_pc>>

vars == <<hn_vars, d_vars, a_vars, g_vars, in_vars, c_vars, p_vars>>

(***************************************************************************)
(* Bounds of the model.                                                    *)
(***************************************************************************)
\* longest enumerated hostname (and longest suffix after a sentinel label)
MaxLen == 3
\* width of an address in bits (IPv4: 32); prefix lengths run from 0 to AddrBits
AddrBits == 2
\* most records one discovery run collects
MaxDiscovered == 2
\* most entries of a loaded inventory file
MaxEntries == 2
\* most devices the inventory generator is given
MaxInvDevices == 2
\* modification times of the files at hand: 1 .. MaxMtime
MaxMtime == 2

(***************************************************************************)
(* Text helpers: Python str methods on sequences of characters.            *)
(***************************************************************************)
UpperLetters ==
    <<"A","B","C","D","E","F","G","H","I","J","K","L","M",
      "N","O","P","Q","R","S","T","U","V","W","X","Y","Z">>

LowerLetters ==
    <<"a","b","c","d","e","f","g","h","i","j","k","l","m",
      "n","o","p","q","r","s","t","u","v","w","x","y","z">>

DigitChars == {"0","1","2","3","4","5","6","7","8","9"}

Range(s) == { s[i] : i \in DOMAIN s }

\* str.isdigit() on one character
IsDigit(c) == c \in DigitChars

\* str.isalnum() on one character
IsAlnum(c) == c \in Range(UpperLetters) \cup Range(LowerLetters) \cup DigitChars

\* str.lower() on one character
LowerChar(c) ==
    IF c \in Range(UpperLetters)
    THEN LowerLetters[CHOOSE i \in DOMAIN UpperLetters : UpperLetters[i] = c]
    ELSE c

\* str.lower()
Lower(s) == [ i \in DOMAIN s |-> LowerChar(s[i]) ]

\* str.replace(old, new) for one-character old and new
ReplaceChar(s, old, new) == [ i \in DOMAIN s |-> IF s[i] = old THEN new ELSE s[i] ]

\* str.split(sep)[0]: the text before the first separator
FirstLabel(s, sep) ==
    IF \E i \in DOMAIN s : s[i] = sep
    THEN SubSeq(s, 1, (CHOOSE i \in DOMAIN s :
                          /\ s[i] = sep
                          /\ \A j \in 1..(i-1) : s[j] # sep) - 1)
    ELSE s

\* whether sub occurs in s (Python: sub in s)
Contains(s, sub) ==
    \E i \in 0..(Len(s) - Len(sub)) : SubSeq(s, i + 1, i + Len(sub)) = sub

\* all texts over alphabet A of length at most n
Strs(A, n) == UNION { [1..k -> A] : k \in 0..n }

UNKNOWN_LOWER == <<"u","n","k","n","o","w","n">>
HOST_PREFIX == <<"h","o","s","t","_">>

(***************************************************************************)
(* Optional text: a JSON string, JSON null (Python None) or a missing key. *)
(***************************************************************************)
Str(s) == [kind |-> "str", s |-> s]
NoneVal == [kind |-> "null", s |-> <<>>]
Absent == [kind |-> "absent", s |-> <<>>]

\* Python truthiness of an optional text
Truthy(h) == h.kind = "str" /\ h.s # <<>>

(***************************************************************************)
(* InventoryGenerator._safe_hostname                                       *)
(***************************************************************************)
\* the replacement of invalid characters
SafeName(label) ==
    [ i \in DOMAIN label |->
        IF IsAlnum(label[i]) \/ label[i] \in {"-", "_"} THEN label[i] ELSE "_" ]

\* the fallback key built from the IP address
IpKey(ip) == HOST_PREFIX \o ReplaceChar(ip, ".", "_")

\* mutant: the digit check is dropped
safe_hostname_NoDigitPrefix(hostname, ip_address) ==
    IF Truthy(hostname) /\ Lower(hostname.s) # UNKNOWN_LOWER
    THEN LET safe_name == SafeName(FirstLabel(hostname.s, "."))
         IN  IF safe_name # <<>> THEN safe_name ELSE IpKey(ip_address)
    ELSE IpKey(ip_address)

safe_hostname(hostname, ip_address) ==
    IF Truthy(hostname) /\ Lower(hostname.s) # UNKNOWN_LOWER
    THEN LET label == FirstLabel(hostname.s, ".")
             safe_name == SafeName(label)
             prefixed == IF safe_name # <<>> /\ IsDigit(safe_name[1])
                         THEN HOST_PREFIX \o safe_name
                         ELSE safe_name
         IN  IF prefixed # <<>> THEN prefixed ELSE IpKey(ip_address)
    ELSE IpKey(ip_address)

(***************************************************************************)
(* Inputs of _safe_hostname.                                               *)
(***************************************************************************)
\* a letter, a digit, the separator, an allowed and a disallowed sign
HostChars == {"a", "3", ".", "-", "$"}

Sentinels ==
    { <<"U","n","k","n","o","w","n">>, UNKNOWN_LOWER,
      <<"U","N","K","N","O","W","N">> }

HostnameTexts ==
    Strs(HostChars, MaxLen)
        \cup { s \o t : s \in Sentinels, t \in Strs(HostChars, MaxLen - 1) }

HostnameInputs == { Str(s) : s \in HostnameTexts } \cup {NoneVal}

\* "1.0.0.5", "1.0.0.6" and the IPv6 loopback "::1"
IP_A == <<"1",".","0",".","0",".","5">>
IP_B == <<"1",".","0",".","0",".","6">>
IP_V6 == <<":",":","1">>
IpTexts == {IP_A, IP_B, IP_V6}

HnInit ==
    /\ hn_in \in HostnameInputs
    /\ hn_ip \in IpTexts
    /\ hn_out = <<>>
    /\ hn_out2 = <<>>
    /\ hn_pc = "in"

HnIdle ==
    /\ hn_in = NoneVal
    /\ hn_ip = IP_A
    /\ hn_out = <<>>
    /\ hn_out2 = <<>>
    /\ hn_pc = "idle"

\* what no step of this component changes
HnOthers == UNCHANGED <<d_vars, a_vars, g_vars, in_vars, c_vars, p_vars>>

\* the key of one device is computed
ApplySafeHostname ==
    /\ hn_pc = "in"
    /\ hn_out' = safe_hostname(hn_in, hn_ip)
    /\ hn_pc' = "once"
    /\ UNCHANGED <<hn_in, hn_ip, hn_out2>>
    /\ HnOthers

\* the key is fed back as a hostname (a later run over the same inventory)
ReapplySafeHostname ==
    /\ hn_pc = "once"
    /\ hn_out2' = safe_hostname(Str(hn_out), hn_ip)
    /\ hn_pc' = "twice"
    /\ UNCHANGED <<hn_in, hn_ip, hn_out>>
    /\ HnOthers

HnNext == ApplySafeHostname \/ ReapplySafeHostname

(***************************************************************************)
(* NetworkDiscovery: addresses are numbers of AddrBits bits, a subnet is   *)
(* an address with a prefix length.                                        *)
(***************************************************************************)
RECURSIVE Pow2(_)
Pow2(n) == IF n = 0 THEN 1 ELSE 2 * Pow2(n - 1)

Addresses == 0 .. (Pow2(AddrBits) - 1)

Subnets == [addr : Addresses, prefix : 0 .. AddrBits]

\* number of addresses a prefix length spans
BlockSize(net) == Pow2(AddrBits - net.prefix)

\* ipaddress.IPv4Network(subnet) raises ValueError when host bits are set
ValidNetwork(net) == net.addr % BlockSize(net) = 0

network_address(net) == net.addr - (net.addr % BlockSize(net))

broadcast_address(net) == network_address(net) + BlockSize(net) - 1

\* every address of the block
NetAddrs(net) == network_address(net) .. broadcast_address(net)

\* IPv4Network.hosts(): a /31-like block yields both addresses, a /32-like
\* block its one address, any other block all but the first and the last
hosts(net) ==
    IF net.prefix >= AddrBits - 1
    THEN NetAddrs(net)
    ELSE (network_address(net) + 1) .. (broadcast_address(net) - 1)

\* mutant: the explicit skip of the network and broadcast address is dropped
ArpTargets_NoSkip(net) == hosts(net)

\* the addresses scan_with_arp sends a request to
ArpTargets(net) ==
    { ip \in hosts(net) :
        ~(ip = network_address(net) \/ ip = broadcast_address(net)) }

\* the elements of a set of numbers in ascending order
RECURSIVE Ascending(_)
Ascending(S) ==
    IF S = {} THEN <<>>
    ELSE LET m == CHOOSE x \in S : \A y \in S : x <= y
         IN  <<m>> \o Ascending(S \ {m})

NoFile == <<"no file">>

\* what reverse DNS (nmap, gethostbyaddr) and a lease's client-hostname give
DnsNames == {"Unknown", "alpha"}
LeaseNames == {"Unknown", "beta"}

\* a hardware address, and the "Unknown" nmap stores when it has none
MacOf(ip) == <<"mac", ip>>
UNKNOWN_MAC == <<"mac", -1>>

NmapRecord(ip, name, mac) ==
    [ip_address |-> ip, hostname |-> name, mac_address |-> mac,
     has_scan |-> TRUE, discovery_method |-> "nmap"]

ArpRecord(ip, name) ==
    [ip_address |-> ip, hostname |-> name, mac_address |-> MacOf(ip),
     has_scan |-> FALSE, discovery_method |-> "arp"]

DhcpRecord(ip, name) ==
    [ip_address |-> ip, hostname |-> name, mac_address |-> MacOf(ip),
     has_scan |-> FALSE, discovery_method |-> "dhcp"]

Room == MaxDiscovered - Len(discovered_devices)

\* the records rec[ip] of the first n addresses of an ascending walk over S
Walk(S, n, rec) == [ i \in 1..n |-> rec[Ascending(S)[i]] ]

\* no ARP probe was sent
NoProbes == [probed |-> {}, failed |-> {}]

DInit ==
    /\ NMAP_AVAILABLE \in BOOLEAN
    /\ SCAPY_AVAILABLE \in BOOLEAN
    /\ lease_file_exists \in BOOLEAN
    /\ subnet \in Subnets
    /\ d_run \in SUBSET {"nmap", "arp", "dhcp"}
    /\ discovered_devices = <<>>
    /\ d_reports = <<>>
    /\ d_ret = "none"
    /\ d_probes = NoProbes
    /\ d_artifact = NoFile
    /\ d_pc = "nmap"

DIdle ==
    /\ NMAP_AVAILABLE = FALSE
    /\ SCAPY_AVAILABLE = FALSE
    /\ lease_file_exists = FALSE
    /\ subnet = [addr |-> 0, prefix |-> 0]
    /\ d_run = {}
    /\ discovered_devices = <<>>
    /\ d_reports = <<>>
    /\ d_ret = "none"
    /\ d_probes = NoProbes
    /\ d_artifact = NoFile
    /\ d_pc = "idle"

\* what no discovery step changes
DOthers == UNCHANGED <<hn_vars, a_vars, g_vars, in_vars, c_vars, p_vars>>

DFrame ==
    /\ UNCHANGED <<NMAP_AVAILABLE, SCAPY_AVAILABLE, lease_file_exists, subnet,
                   d_run, d_artifact>>
    /\ DOthers

\* mutant: a method call that returns [] ends the run of the methods
ReturnsEmpty_Aborts(next_pc) ==
    /\ d_ret' = "empty"
    /\ d_pc' = "finish"
    /\ UNCHANGED <<discovered_devices, d_reports, d_probes>>

\* a method call that appends nothing and returns []
ReturnsEmpty(next_pc) ==
    /\ d_ret' = "empty"
    /\ d_pc' = next_pc
    /\ UNCHANGED <<discovered_devices, d_reports, d_probes>>

\* mutant: a call that raises leaves the list empty, like its return value
Appends_Resets(recs, raised, next_pc) ==
    /\ discovered_devices' = IF raised THEN <<>> ELSE discovered_devices \o recs
    /\ d_reports' = d_reports \o recs
    /\ d_ret' = IF raised THEN "empty" ELSE "devices"
    /\ d_pc' = next_pc

\* a method call that appends recs; raised says whether it then raised
Appends(recs, raised, next_pc) ==
    /\ discovered_devices' = discovered_devices \o recs
    /\ d_reports' = d_reports \o recs
    /\ d_ret' = IF raised THEN "empty" ELSE "devices"
    /\ d_pc' = next_pc

\* the targets an ARP scan got through, and the one whose probe raised
Probes(targets, probed) ==
    [probed |-> { Ascending(targets)[i] : i \in 1..probed },
     failed |-> IF probed < Cardinality(targets)
                THEN {Ascending(targets)[probed + 1]} ELSE {}]

\* main() does not call a method whose flag is not set
SkipMethod ==
    /\ d_pc \in {"nmap", "arp", "dhcp"}
    /\ d_pc \notin d_run
    /\ d_pc' = CASE d_pc = "nmap" -> "arp"
                 [] d_pc = "arp" -> "dhcp"
                 [] OTHER -> "finish"
    /\ UNCHANGED <<discovered_devices, d_reports, d_ret, d_probes>>
    /\ DFrame

\* scan_with_nmap: python-nmap missing
NmapUnavailable ==
    /\ d_pc = "nmap" /\ "nmap" \in d_run
    /\ ~NMAP_AVAILABLE
    /\ ReturnsEmpty("arp")
    /\ DFrame

\* scan_with_nmap: the scan reports the hosts up (in the order of
\* all_hosts()); the loop appends one record per host and may raise after
\* done of them (done = number of hosts: no exception); hardware addresses
\* are reported when the scanner is on the hosts' link
NmapScan ==
    /\ d_pc = "nmap" /\ "nmap" \in d_run
    /\ NMAP_AVAILABLE
    /\ \E up \in SUBSET NetAddrs(subnet) :
         /\ Cardinality(up) <= Room
         /\ \E name \in [up -> DnsNames], onlink \in BOOLEAN,
               done \in 0 .. Cardinality(up) :
              Appends(Walk(up, done,
                           [ ip \in up |-> NmapRecord(ip, name[ip],
                               IF onlink THEN MacOf(ip) ELSE UNKNOWN_MAC) ]),
                      done < Cardinality(up), "arp")
    /\ UNCHANGED d_probes
    /\ DFrame

\* scan_with_nmap: the scanner cannot be created or the scan itself raises
NmapScanRaises ==
    /\ d_pc = "nmap" /\ "nmap" \in d_run
    /\ NMAP_AVAILABLE
    /\ ReturnsEmpty("arp")
    /\ DFrame

\* scan_with_arp: scapy missing
ArpUnavailable ==
    /\ d_pc = "arp" /\ "arp" \in d_run
    /\ ~SCAPY_AVAILABLE
    /\ ReturnsEmpty("dhcp")
    /\ DFrame

\* scan_with_arp: IPv4Network(self.subnet) raises ValueError
ArpBadSubnet ==
    /\ d_pc = "arp" /\ "arp" \in d_run
    /\ SCAPY_AVAILABLE
    /\ ~ValidNetwork(subnet)
    /\ ReturnsEmpty("dhcp")
    /\ DFrame

\* scan_with_arp: the targets are probed in ascending order; a probe (the
\* request or the hostname lookup) may raise at target number probed + 1,
\* which ends the loop; each answering target before it gives one record
ArpScan ==
    /\ d_pc = "arp" /\ "arp" \in d_run
    /\ SCAPY_AVAILABLE
    /\ ValidNetwork(subnet)
    /\ LET targets == ArpTargets(subnet)
       IN  \E probed \in 0 .. Cardinality(targets) :
             LET seen == Probes(targets, probed).probed
             IN  /\ \E answered \in SUBSET seen :
                       /\ Cardinality(answered) <= Room
                       /\ \E name \in [answered -> DnsNames] :
                            Appends(Walk(answered, Cardinality(answered),
                                         [ ip \in answered |-> ArpRecord(ip, name[ip]) ]),
                                    probed < Cardinality(targets), "dhcp")
                 /\ d_probes' = Probes(targets, probed)
    /\ DFrame

\* get_dhcp_leases: no lease file (Linux; on Windows, netsh fails)
DhcpUnavailable ==
    /\ d_pc = "dhcp" /\ "dhcp" \in d_run
    /\ ~lease_file_exists
    /\ ReturnsEmpty("finish")
    /\ DFrame

\* get_dhcp_leases: reading or parsing the leases raises before the
\* records are added
DhcpParseRaises ==
    /\ d_pc = "dhcp" /\ "dhcp" \in d_run
    /\ lease_file_exists
    /\ ReturnsEmpty("finish")
    /\ DFrame

\* get_dhcp_leases: every lease entry that has an address and a hardware
\* address gives one record; all are added at the end, in file order
DhcpLeases ==
    /\ d_pc = "dhcp" /\ "dhcp" \in d_run
    /\ lease_file_exists
    /\ \E n \in 0 .. Room :
         \E ips \in [1..n -> Addresses], names \in [1..n -> LeaseNames] :
            Appends([ i \in 1..n |-> DhcpRecord(ips[i], names[i]) ],
                    FALSE, "finish")
    /\ UNCHANGED d_probes
    /\ DFrame

\* main(): no method asked for: help is printed, nothing is saved
MainNoMethod ==
    /\ d_pc = "finish"
    /\ d_run = {}
    /\ d_pc' = "done"
    /\ UNCHANGED <<discovered_devices, d_reports, d_ret, d_probes, d_artifact>>
    /\ UNCHANGED <<NMAP_AVAILABLE, SCAPY_AVAILABLE, lease_file_exists, subnet, d_run>>
    /\ DOthers

\* main() and save_results: the list is written when it is not empty
MainSave ==
    /\ d_pc = "finish"
    /\ d_run # {}
    /\ d_artifact' = IF discovered_devices # <<>> THEN discovered_devices ELSE NoFile
    /\ d_pc' = "done"
    /\ UNCHANGED <<discovered_devices, d_reports, d_ret, d_probes>>
    /\ UNCHANGED <<NMAP_AVAILABLE, SCAPY_AVAILABLE, lease_file_exists, subnet, d_run>>
    /\ DOthers

DNext ==
    \/ SkipMethod
    \/ NmapUnavailable \/ NmapScan \/ NmapScanRaises
    \/ ArpUnavailable \/ ArpBadSubnet \/ ArpScan
    \/ DhcpUnavailable \/ DhcpParseRaises \/ DhcpLeases
    \/ MainNoMethod \/ MainSave

(***************************************************************************)
(* HardwareAssessment                                                      *)
(***************************************************************************)
SSH_PORT == 22
WINRM_PORT == 5985
TELNET_PORT == 23
HTTP_PORT == 80
HTTPS_PORT == 443
SMB_PORT == 445
RDP_PORT == 3389

\* common_ports of _assess_via_basic_scan, in its order
common_ports ==
    <<SSH_PORT, TELNET_PORT, HTTP_PORT, HTTPS_PORT, SMB_PORT, RDP_PORT, WINRM_PORT>>

\* the ports whose state the model lets vary from host to host
EnvPorts == {SSH_PORT, SMB_PORT, WINRM_PORT}

\* what one host answers while it is assessed: the set of open ports,
\* whether shell / management introspection goes through to the end, and
\* whether ping succeeds
Envs == [open : SUBSET EnvPorts, ssh_ok : BOOLEAN, winrm_ok : BOOLEAN, alive : BOOLEAN]

NoEnv == [open |-> {}, ssh_ok |-> FALSE, winrm_ok |-> FALSE, alive |-> FALSE]

\* _check_port_open
check_port_open(env, port) == port \in env.open

\* the value None of an assessment, and the fields of one
NoAssessment ==
    [assessment_method |-> "none", os_type |-> "none", hardware |-> FALSE,
     software |-> FALSE, network |-> FALSE, open_ports |-> <<>>,
     assessment_timestamp |-> FALSE]

\* _assess_via_ssh
assess_via_ssh(env) ==
    IF ~PARAMIKO_AVAILABLE THEN NoAssessment
    ELSE IF env.ssh_ok
    THEN [assessment_method |-> "ssh", os_type |-> "linux", hardware |-> TRUE,
          software |-> TRUE, network |-> FALSE, open_ports |-> <<>>,
          assessment_timestamp |-> FALSE]
    ELSE NoAssessment

\* _assess_via_winrm
assess_via_winrm(env) ==
    IF ~WMI_AVAILABLE THEN NoAssessment
    ELSE IF env.winrm_ok
    THEN [assessment_method |-> "winrm", os_type |-> "windows", hardware |-> TRUE,
          software |-> TRUE, network |-> FALSE, open_ports |-> <<>>,
          assessment_timestamp |-> FALSE]
    ELSE NoAssessment

\* the elements of a sequence that satisfy a membership test, in order
RECURSIVE FilterIn(_, _)
FilterIn(seq, S) ==
    IF seq = <<>> THEN <<>>
    ELSE (IF Head(seq) \in S THEN <<Head(seq)>> ELSE <<>>) \o FilterIn(Tail(seq), S)

\* mutant: an open shell port is looked at before the management ports
GuessOsType_ShellFirst(open_ports) ==
    IF SSH_PORT \in Range(open_ports) /\ SMB_PORT \notin Range(open_ports)
    THEN "linux"
    ELSE IF RDP_PORT \in Range(open_ports) \/ WINRM_PORT \in Range(open_ports)
    THEN "windows"
    ELSE "unknown"

\* the OS guess of the basic scan
GuessOsType(open_ports) ==
    IF RDP_PORT \in Range(open_ports) \/ WINRM_PORT \in Range(open_ports)
    THEN "windows"
    ELSE IF SSH_PORT \in Range(open_ports) /\ SMB_PORT \notin Range(open_ports)
    THEN "linux"
    ELSE "unknown"

\* _assess_via_basic_scan
assess_via_basic_scan(env) ==
    IF ~env.alive THEN NoAssessment
    ELSE LET open_ports == FilterIn(common_ports, env.open)
         IN  [assessment_method |-> "basic_scan", os_type |-> GuessOsType(open_ports),
              hardware |-> FALSE, software |-> FALSE, network |-> TRUE,
              open_ports |-> open_ports, assessment_timestamp |-> FALSE]

\* one attempt of a method and whether it gave an assessment
Attempt(method, assessment) ==
    <<[method |-> method, ok |-> assessment # NoAssessment]>>

\* mutant: WinRM is tried whenever its port is open, also after SSH succeeded
assess_device_TriesAll(env) ==
    LET try_ssh == PARAMIKO_AVAILABLE /\ check_port_open(env, SSH_PORT)
        a1 == IF try_ssh THEN assess_via_ssh(env) ELSE NoAssessment
        try_winrm == WMI_AVAILABLE /\ check_port_open(env, WINRM_PORT)
        a2 == IF try_winrm /\ assess_via_winrm(env) # NoAssessment
              THEN assess_via_winrm(env) ELSE a1
        try_basic == a2 = NoAssessment
        a3 == IF try_basic THEN assess_via_basic_scan(env) ELSE a2
    IN  [attempts |-> (IF try_ssh THEN Attempt("ssh", a1) ELSE <<>>)
                      \o (IF try_winrm THEN Attempt("winrm", assess_via_winrm(env)) ELSE <<>>)
                      \o (IF try_basic THEN Attempt("basic_scan", a3) ELSE <<>>),
         assessment |-> IF a3 # NoAssessment
                        THEN [a3 EXCEPT !.assessment_timestamp = TRUE]
                        ELSE a3]

\* mutant: the basic scan is tried only when no other method was tried
assess_device_NoFallback(env) ==
    LET try_ssh == PARAMIKO_AVAILABLE /\ check_port_open(env, SSH_PORT)
        a1 == IF try_ssh THEN assess_via_ssh(env) ELSE NoAssessment
        try_winrm == a1 = NoAssessment /\ WMI_AVAILABLE
                        /\ check_port_open(env, WINRM_PORT)
        a2 == IF try_winrm THEN assess_via_winrm(env) ELSE a1
        try_basic == ~try_ssh /\ ~try_winrm
        a3 == IF try_basic THEN assess_via_basic_scan(env) ELSE a2
    IN  [attempts |-> (IF try_ssh THEN Attempt("ssh", a1) ELSE <<>>)
                      \o (IF try_winrm THEN Attempt("winrm", a2) ELSE <<>>)
                      \o (IF try_basic THEN Attempt("basic_scan", a3) ELSE <<>>),
         assessment |-> IF a3 # NoAssessment
                        THEN [a3 EXCEPT !.assessment_timestamp = TRUE]
                        ELSE a3]

\* assess_device: the assessment it returns and, as history, the methods it
\* called in order
assess_device(env) ==
    LET try_ssh == PARAMIKO_AVAILABLE /\ check_port_open(env, SSH_PORT)
        a1 == IF try_ssh THEN assess_via_ssh(env) ELSE NoAssessment
        try_winrm == a1 = NoAssessment /\ WMI_AVAILABLE
                        /\ check_port_open(env, WINRM_PORT)
        a2 == IF try_winrm THEN assess_via_winrm(env) ELSE a1
        try_basic == a2 = NoAssessment
        a3 == IF try_basic THEN assess_via_basic_scan(env) ELSE a2
    IN  [attempts |-> (IF try_ssh THEN Attempt("ssh", a1) ELSE <<>>)
                      \o (IF try_winrm THEN Attempt("winrm", a2) ELSE <<>>)
                      \o (IF try_basic THEN Attempt("basic_scan", a3) ELSE <<>>),
         assessment |-> IF a3 # NoAssessment
                        THEN [a3 EXCEPT !.assessment_timestamp = TRUE]
                        ELSE a3]

\* the fields of a mapping other than ip_address, as <<name, value>> pairs:
\* those of a record of the discovery engine, and those of a record that
\* was assessed before (a hardware_assessment file given as the input)
DiscoveryFields == { <<"hostname", "Unknown">>, <<"discovery_method", "arp">> }
AssessedFields ==
    DiscoveryFields \cup { <<"assessment_method", "ssh">>, <<"operating_system", "linux">> }

\* an inventory entry: a mapping (with or without a usable ip_address) or
\* some other JSON value
DictEntry(ip) == [is_dict |-> TRUE, ip_address |-> ip, fields |-> DiscoveryFields]
AssessedEntry(ip) == [is_dict |-> TRUE, ip_address |-> ip, fields |-> AssessedFields]
NO_IP == "none"
NotADict == [is_dict |-> FALSE, ip_address |-> NO_IP, fields |-> {}]
Entries ==
    { DictEntry(ip) : ip \in {"1.0.0.5", "1.0.0.6", NO_IP} }
        \cup {AssessedEntry("1.0.0.5"), NotADict}

\* the top-level fields of an assessment, as <<name, value>> pairs
AssessmentFields(assessment) ==
    { <<"assessment_method", assessment.assessment_method>>,
      <<"operating_system", assessment.os_type>>,
      <<"assessment_timestamp", "now">> }
        \cup (IF assessment.hardware THEN {<<"hardware", "measured">>} ELSE {})
        \cup (IF assessment.software THEN {<<"software", "measured">>} ELSE {})
        \cup (IF assessment.network THEN {<<"network", "open_ports">>} ELSE {})

FieldNames(fields) == { f[1] : f \in fields }

\* {**left, **right}: a name both have takes the value of right
DictMerge(left, right) ==
    right \cup { f \in left : f[1] \notin FieldNames(right) }

\* device_info = {**device, **assessment}; src is the entry's position
DeviceInfo(device, src, assessment) ==
    [ip_address |-> device.ip_address, src |-> src, assessment |-> assessment,
     fields |-> DictMerge(device.fields, AssessmentFields(assessment))]

\* mutant: the record is appended whatever assess_device returned
Collected_Always(list, device, src, assessment) ==
    Append(list, DeviceInfo(device, src, assessment))

\* mutant: the merged record is put in front of the list
Collected_Prepends(list, device, src, assessment) ==
    IF assessment # NoAssessment
    THEN <<DeviceInfo(device, src, assessment)>> \o list
    ELSE list

\* the list after `if assessment: ... append`
Collected(list, device, src, assessment) ==
    IF assessment # NoAssessment
    THEN Append(list, DeviceInfo(device, src, assessment))
    ELSE list

NothingTried == [idx |-> 0, env |-> NoEnv, attempts |-> <<>>]

AInit ==
    /\ PARAMIKO_AVAILABLE \in BOOLEAN
    /\ WMI_AVAILABLE \in BOOLEAN
    /\ devices \in UNION { [1..n -> Entries] : n \in 0..MaxEntries }
    /\ assessed_devices = <<>>
    /\ a_idx = 1
    /\ a_last = NothingTried
    /\ a_outcomes = <<>>
    /\ a_artifact = NoFile
    /\ a_pc = "loop"

AIdle ==
    /\ PARAMIKO_AVAILABLE = FALSE
    /\ WMI_AVAILABLE = FALSE
    /\ devices = <<>>
    /\ assessed_devices = <<>>
    /\ a_idx = 1
    /\ a_last = NothingTried
    /\ a_outcomes = <<>>
    /\ a_artifact = NoFile
    /\ a_pc = "idle"

\* what no assessment step changes
AOthers == UNCHANGED <<hn_vars, d_vars, g_vars, in_vars, c_vars, p_vars>>

AFrame ==
    /\ UNCHANGED <<PARAMIKO_AVAILABLE, WMI_AVAILABLE, devices>>
    /\ AOthers

InLoop == a_pc = "loop" /\ a_idx <= Len(devices)

\* assess_all_devices, one entry: a mapping without ip_address is skipped
AssessSkipNoIp ==
    /\ InLoop
    /\ devices[a_idx].is_dict
    /\ devices[a_idx].ip_address = NO_IP
    /\ a_outcomes' = Append(a_outcomes, "skipped")
    /\ a_last' = [NothingTried EXCEPT !.idx = a_idx]
    /\ a_idx' = a_idx + 1
    /\ UNCHANGED <<assessed_devices, a_artifact, a_pc>>
    /\ AFrame

\* assess_all_devices, one entry: the device is assessed with what it
\* answers, and the merged record is appended when there is an assessment
AssessEntry ==
    /\ InLoop
    /\ devices[a_idx].is_dict
    /\ devices[a_idx].ip_address # NO_IP
    /\ \E env \in Envs :
         LET got == assess_device(env)
         IN  /\ assessed_devices' =
                    Collected(assessed_devices, devices[a_idx], a_idx, got.assessment)
             /\ a_last' = [idx |-> a_idx, env |-> env, attempts |-> got.attempts]
             /\ a_outcomes' = Append(a_outcomes, got.assessment.assessment_method)
    /\ a_idx' = a_idx + 1
    /\ UNCHANGED <<a_artifact, a_pc>>
    /\ AFrame

\* assess_all_devices, one entry that is not a mapping: device.get raises
\* AttributeError, and the except clause calls device.get again while it
\* formats its message, so the second AttributeError leaves the loop, the
\* method and main()
AssessNotADict ==
    /\ InLoop
    /\ ~devices[a_idx].is_dict
    /\ a_pc' = "crashed"
    /\ a_last' = [NothingTried EXCEPT !.idx = a_idx]
    /\ UNCHANGED <<assessed_devices, a_idx, a_outcomes, a_artifact>>
    /\ AFrame

\* assess_all_devices returns after the last entry
AssessReturn ==
    /\ a_pc = "loop"
    /\ a_idx > Len(devices)
    /\ a_pc' = "returned"
    /\ UNCHANGED <<assessed_devices, a_idx, a_last, a_outcomes, a_artifact>>
    /\ AFrame

\* main() and save_results: the list is written when it is not empty
AssessSave ==
    /\ a_pc = "returned"
    /\ a_artifact' = IF assessed_devices # <<>> THEN assessed_devices ELSE NoFile
    /\ a_pc' = "done"
    /\ UNCHANGED <<assessed_devices, a_idx, a_last, a_outcomes>>
    /\ AFrame

ANext ==
    \/ AssessSkipNoIp \/ AssessEntry \/ AssessNotADict
    \/ AssessReturn \/ AssessSave

(***************************************************************************)
(* InventoryGenerator: devices, classification and the inventory tree.     *)
(***************************************************************************)
\* the fixed groups of _create_base_inventory, as paths below all.children
TierRoles ==
    [tier1_core |-> {"network", "storage", "security", "virtualization"},
     tier2_services |-> {"automation", "monitoring", "identity", "secrets"},
     tier3_applications |-> {"business", "media", "cloud"},
     tier4_specialized |-> {"ai", "gaming", "security_specialized"}]

OsFamilies == {"linux", "windows", "macos", "network_devices", "other"}

RoleGroups == UNION { { <<t, r>> : r \in TierRoles[t] } : t \in DOMAIN TierRoles }

OsGroups == { <<"os_types", f>> : f \in OsFamilies }

Ungrouped == <<"ungrouped", "hosts">>

Groups == RoleGroups \cup OsGroups \cup {Ungrouped}

\* _create_base_inventory: every group has an empty hosts mapping
create_base_inventory == [ g \in Groups |-> <<>> ]

\* hosts[key] = value on a mapping from host keys to variables
DictSet(mapping, key, value) ==
    [ k \in DOMAIN mapping \cup {key} |-> IF k = key THEN value ELSE mapping[k] ]

\* the texts the classifier compares with
T_linux == <<"l","i","n","u","x">>
T_windows == <<"w","i","n","d","o","w","s">>
T_macos == <<"m","a","c","o","s">>
T_network == <<"n","e","t","w","o","r","k">>
T_unknown == UNKNOWN_LOWER

NetworkTerms ==
    { <<"r","o","u","t","e","r">>, <<"s","w","i","t","c","h">>, <<"f","w">>,
      <<"f","i","r","e","w","a","l","l">>, <<"g","a","t","e","w","a","y">> }

StorageTerms ==
    { <<"n","a","s">>, <<"s","a","n">>, <<"s","t","o","r","a","g","e">>,
      <<"b","a","c","k","u","p">> }

RDP_ALT_PORT == 5986
HTTP_ALT_PORT == 8080
MYSQL_PORT == 3306
POSTGRES_PORT == 5432
ORACLE_PORT == 1521
MONGO_PORT == 27017

WindowsPorts == {RDP_PORT, WINRM_PORT, RDP_ALT_PORT}
WebPorts == {HTTP_PORT, HTTPS_PORT, HTTP_ALT_PORT}
DatabasePorts == {MYSQL_PORT, POSTGRES_PORT, ORACLE_PORT, MONGO_PORT}

\* a device of the loaded list.  ip_address <<>> stands for a missing, null
\* or empty address; os_type is operating_system.type (absent: no such
\* key); open_ports is the set of port numbers of the open_ports list;
\* hardware is absent, null, or a mapping whose entries are each absent,
\* null or a value (cpu: the core count, memory: the total in MB)
NoHardware == [kind |-> "absent", virt |-> "absent", cpu |-> "absent", memory |-> "absent"]
NullHardware == [kind |-> "null", virt |-> "absent", cpu |-> "absent", memory |-> "absent"]
Hardware(virt, cpu, memory) ==
    [kind |-> "dict", virt |-> virt, cpu |-> cpu, memory |-> memory]

NoPorts == [kind |-> "absent", ports |-> {}]
Ports(S) == [kind |-> "list", ports |-> S]

Device(hostname, ip, os_type, open_ports, hardware) ==
    [is_dict |-> TRUE, hostname |-> hostname, ip_address |-> ip,
     os_type |-> os_type, open_ports |-> open_ports, hardware |-> hardware]

NotAMapping ==
    [is_dict |-> FALSE, hostname |-> Absent, ip_address |-> <<>>,
     os_type |-> Absent, open_ports |-> NoPorts, hardware |-> NoHardware]

\* device.get('hostname', "unknown")
HostnameOrDefault(device) ==
    IF device.hostname.kind = "absent" THEN Str(T_unknown) ELSE device.hostname

\* _determine_os_type raises when operating_system.type is null (.lower())
os_type_raises(device) == device.os_type.kind = "null"

\* mutant: the open ports are looked at before the explicit type
determine_os_type_PortsFirst(device) ==
    LET os_type == Lower(device.os_type.s)
        known == device.os_type.kind = "str"
    IN  IF device.open_ports.kind = "list"
              /\ device.open_ports.ports \cap WindowsPorts # {}
        THEN "windows"
        ELSE IF device.open_ports.kind = "list" /\ SSH_PORT \in device.open_ports.ports
        THEN "linux"
        ELSE IF known /\ os_type \in {T_linux, T_windows, T_macos}
        THEN CASE os_type = T_linux -> "linux"
               [] os_type = T_windows -> "windows"
               [] OTHER -> "macos"
        ELSE IF known /\ Contains(os_type, T_network)
        THEN "network_devices"
        ELSE "other"

\* _determine_os_type
determine_os_type(device) ==
    LET os_type == Lower(device.os_type.s)
        known == device.os_type.kind = "str"
    IN  IF known /\ os_type \in {T_linux, T_windows, T_macos}
        THEN CASE os_type = T_linux -> "linux"
               [] os_type = T_windows -> "windows"
               [] OTHER -> "macos"
        ELSE IF known /\ Contains(os_type, T_network)
        THEN "network_devices"
        ELSE IF device.open_ports.kind = "list"
                  /\ device.open_ports.ports \cap WindowsPorts # {}
        THEN "windows"
        ELSE IF device.open_ports.kind = "list" /\ SSH_PORT \in device.open_ports.ports
        THEN "linux"
        ELSE "other"

HasTerm(hostname, terms) == \E t \in terms : Contains(hostname, t)

\* device.get('hostname', '').lower()
RoleHostname(device) ==
    IF device.hostname.kind = "absent" THEN <<>> ELSE Lower(device.hostname.s)

\* _determine_device_role raises on a null hostname (.lower()) and, when no
\* hostname rule applies, on a null hardware (the `in` test)
device_role_raises(device) ==
    \/ device.hostname.kind = "null"
    \/ /\ ~HasTerm(RoleHostname(device), NetworkTerms \cup StorageTerms)
       /\ device.hardware.kind = "null"

\* mutant: the open ports are looked at before hostname and hardware
determine_device_role_PortsFirst(device) ==
    LET hostname == RoleHostname(device)
    IN  IF device.open_ports.kind = "list"
              /\ device.open_ports.ports \cap WebPorts # {}
        THEN "cloud"
        ELSE IF device.open_ports.kind = "list"
                  /\ device.open_ports.ports \cap DatabasePorts # {}
        THEN "business"
        ELSE IF HasTerm(hostname, NetworkTerms) THEN "network"
        ELSE IF HasTerm(hostname, StorageTerms) THEN "storage"
        ELSE IF device.hardware.kind = "dict" /\ device.hardware.virt = "true"
        THEN "virtualization"
        ELSE "ungrouped"

\* _determine_device_role
determine_device_role(device) ==
    LET hostname == RoleHostname(device)
    IN  IF HasTerm(hostname, NetworkTerms) THEN "network"
        ELSE IF HasTerm(hostname, StorageTerms) THEN "storage"
        ELSE IF device.hardware.kind = "dict" /\ device.hardware.virt = "true"
        THEN "virtualization"
        ELSE IF device.open_ports.kind = "list"
                  /\ device.open_ports.ports \cap WebPorts # {}
        THEN "cloud"
        ELSE IF device.open_ports.kind = "list"
                  /\ device.open_ports.ports \cap DatabasePorts # {}
        THEN "business"
        ELSE "ungrouped"

\* mutant: the application roles are looked up under the services tier
TierGroup_Shifted(device_role) ==
    CASE device_role \in {"network", "storage", "security", "virtualization"} -> "tier1_core"
      [] device_role \in {"automation", "monitoring", "identity", "secrets",
                          "business", "media", "cloud"} -> "tier2_services"
      [] device_role \in {"ai", "gaming", "security_specialized"} -> "tier4_specialized"
      [] OTHER -> "none"

\* the tier lookup of _add_host_to_inventory; "none" is tier_group = None
TierGroup(device_role) ==
    CASE device_role \in {"network", "storage", "security", "virtualization"} -> "tier1_core"
      [] device_role \in {"automation", "monitoring", "identity", "secrets"} -> "tier2_services"
      [] device_role \in {"business", "media", "cloud"} -> "tier3_applications"
      [] device_role \in {"ai", "gaming", "security_specialized"} -> "tier4_specialized"
      [] OTHER -> "none"

\* the empty mapping a role group stores for a host
EmptyVars ==
    [ansible_host |-> <<>>, ansible_connection |-> "absent",
     ansible_winrm_server_cert_validation |-> "absent", cpu_cores |-> "absent",
     cpu_arch |-> "absent", memory_mb |-> "absent", virtualization_support |-> "absent"]

\* building host_vars raises when hardware.cpu or hardware.memory is null
host_vars_raises(device) ==
    /\ device.hardware.kind = "dict"
    /\ device.hardware.cpu = "null" \/ device.hardware.memory = "null"

\* host_vars of _add_host_to_inventory
HostVars(ip_address, os_type, device) ==
    LET hw == device.hardware
        is_hw == hw.kind = "dict"
    IN  [ansible_host |-> ip_address,
         ansible_connection |->
            IF os_type = "windows" THEN "winrm"
            ELSE IF os_type \in {"linux", "macos"} THEN "ssh" ELSE "absent",
         ansible_winrm_server_cert_validation |->
            IF os_type = "windows" THEN "ignore" ELSE "absent",
         cpu_cores |-> IF is_hw /\ hw.cpu # "absent" THEN hw.cpu ELSE "absent",
         cpu_arch |-> IF is_hw /\ hw.cpu # "absent" THEN "x86_64" ELSE "absent",
         memory_mb |-> IF is_hw /\ hw.memory # "absent" THEN hw.memory ELSE "absent",
         virtualization_support |-> IF is_hw THEN hw.virt ELSE "absent"]

\* mutant: the role group stores the host variables too
add_host_to_inventory_VarsInRole(tree, hostname, ip_address, os_type, device_role, device) ==
    LET key == hostname
        host_vars == HostVars(ip_address, os_type, device)
        os_group == <<"os_types", os_type>>
        with_os == [tree EXCEPT ![os_group] = DictSet(@, key, host_vars)]
        tier_group == TierGroup(device_role)
        role_group == <<tier_group, device_role>>
    IN  IF device_role # "ungrouped"
        THEN IF tier_group # "none"
             THEN [with_os EXCEPT ![role_group] = DictSet(@, key, host_vars)]
             ELSE with_os
        ELSE [with_os EXCEPT ![Ungrouped] = DictSet(@, key, host_vars)]

\* mutant: a host without a role is stored under its OS family only
add_host_to_inventory_OsOnly(tree, hostname, ip_address, os_type, device_role, device) ==
    LET key == hostname
        host_vars == HostVars(ip_address, os_type, device)
        os_group == <<"os_types", os_type>>
        with_os == [tree EXCEPT ![os_group] = DictSet(@, key, host_vars)]
        tier_group == TierGroup(device_role)
        role_group == <<tier_group, device_role>>
    IN  IF device_role # "ungrouped" /\ tier_group # "none"
        THEN [with_os EXCEPT ![role_group] = DictSet(@, key, EmptyVars)]
        ELSE with_os

\* _add_host_to_inventory: the tree after the placements
add_host_to_inventory(tree, hostname, ip_address, os_type, device_role, device) ==
    LET key == hostname
        host_vars == HostVars(ip_address, os_type, device)
        os_group == <<"os_types", os_type>>
        with_os == [tree EXCEPT ![os_group] = DictSet(@, key, host_vars)]
        tier_group == TierGroup(device_role)
        role_group == <<tier_group, device_role>>
    IN  IF device_role # "ungrouped"
        THEN IF tier_group # "none"
             THEN [with_os EXCEPT ![role_group] = DictSet(@, key, EmptyVars)]
             ELSE with_os
        ELSE [with_os EXCEPT ![Ungrouped] = DictSet(@, key, host_vars)]

\* the devices the generator is run on
T_web_a == <<"w","e","b",".","a">>
T_web_b == <<"w","e","b",".","b">>
T_fw == <<"f","w">>
T_key_of_A == <<"h","o","s","t","_","1","_","0","_","0","_","5">>

InvCatalog ==
    { Device(Str(T_web_a), IP_A, Absent, Ports({HTTP_PORT}), NoHardware),
      Device(Str(T_web_b), IP_B, Str(T_linux), NoPorts,
             Hardware("false", "4", "2048")),
      Device(Str(<<"U","n","k","n","o","w","n">>), IP_A, Absent,
             Ports({SSH_PORT, RDP_PORT}), NoHardware),
      Device(Absent, IP_A, Str(T_linux), NoPorts, Hardware("true", "4", "absent")),
      Device(Str(T_key_of_A), IP_B, Str(T_unknown), Ports({SSH_PORT}), NoHardware),
      Device(Str(T_fw), IP_B, Str(T_network), NoPorts, NoHardware),
      Device(NoneVal, IP_B, Absent, NoPorts, NoHardware),
      Device(Str(T_web_a), IP_A, Absent, Ports({MYSQL_PORT}), Hardware("absent", "null", "absent")),
      Device(Str(T_web_a), <<>>, Absent, NoPorts, NoHardware),
      NotAMapping }

GInit ==
    /\ g_devices \in UNION { [1..n -> InvCatalog] : n \in 0..MaxInvDevices }
    /\ inventory = create_base_inventory
    /\ g_idx = 1
    /\ g_log = <<>>
    /\ g_pc = "loop"

GIdle ==
    /\ g_devices = <<>>
    /\ inventory = create_base_inventory
    /\ g_idx = 1
    /\ g_log = <<>>
    /\ g_pc = "idle"

\* what no step of the generator changes
GOthers == UNCHANGED <<hn_vars, d_vars, a_vars, in_vars, c_vars, p_vars>>

GInLoop == g_pc = "loop" /\ g_devices # <<>> /\ g_idx <= Len(g_devices)

\* what the history keeps of a handled device
Handled(idx, device, outcome, key, os_type, role) ==
    [src |-> idx, ip_address |-> device.ip_address, outcome |-> outcome,
     key |-> key, os_type |-> os_type, role |-> role]

\* generate_inventory on an empty list: returns False
GenerateNothing ==
    /\ g_pc = "loop"
    /\ g_devices = <<>>
    /\ g_pc' = "returned"
    /\ UNCHANGED <<g_devices, inventory, g_idx, g_log>>
    /\ GOthers

\* generate_inventory, one device without ip_address: skipped
GenerateSkipNoIp ==
    /\ GInLoop
    /\ g_devices[g_idx].is_dict
    /\ g_devices[g_idx].ip_address = <<>>
    /\ g_log' = Append(g_log, Handled(g_idx, g_devices[g_idx], "no_ip", <<>>, "none", "none"))
    /\ g_idx' = g_idx + 1
    /\ UNCHANGED <<g_devices, inventory, g_pc>>
    /\ GOthers

\* generate_inventory, one device: key, OS family and role are determined
\* and the host is placed
GeneratePlace ==
    /\ GInLoop
    /\ LET device == g_devices[g_idx]
       IN  /\ device.is_dict
           /\ device.ip_address # <<>>
           /\ ~os_type_raises(device)
           /\ ~device_role_raises(device)
           /\ ~host_vars_raises(device)
           /\ LET safe_hostname_ == safe_hostname(HostnameOrDefault(device), device.ip_address)
                  os_type == determine_os_type(device)
                  device_role == determine_device_role(device)
              IN  /\ inventory' = add_host_to_inventory(inventory, safe_hostname_,
                                      device.ip_address, os_type, device_role, device)
                  /\ g_log' = Append(g_log, Handled(g_idx, device, "placed",
                                      safe_hostname_, os_type, device_role))
    /\ g_idx' = g_idx + 1
    /\ UNCHANGED <<g_devices, g_pc>>
    /\ GOthers

\* generate_inventory, one device whose processing raises: the exception
\* is caught and printed, the device is not placed
GenerateError ==
    /\ GInLoop
    /\ LET device == g_devices[g_idx]
       IN  /\ device.is_dict
           /\ device.ip_address # <<>>
           /\ os_type_raises(device) \/ device_role_raises(device)
                \/ host_vars_raises(device)
           /\ g_log' = Append(g_log, Handled(g_idx, device, "error", <<>>, "none", "none"))
    /\ g_idx' = g_idx + 1
    /\ UNCHANGED <<g_devices, inventory, g_pc>>
    /\ GOthers

\* generate_inventory, one entry that is not a mapping: device.get raises
\* in the try block and again in the except clause's message, which ends
\* generate_inventory with the exception
GenerateNotAMapping ==
    /\ GInLoop
    /\ ~g_devices[g_idx].is_dict
    /\ g_pc' = "crashed"
    /\ UNCHANGED <<g_devices, inventory, g_idx, g_log>>
    /\ GOthers

\* generate_inventory returns True after the last device
GenerateReturn ==
    /\ g_pc = "loop"
    /\ g_devices # <<>>
    /\ g_idx > Len(g_devices)
    /\ g_pc' = "returned"
    /\ UNCHANGED <<g_devices, inventory, g_idx, g_log>>
    /\ GOthers

GNext ==
    \/ GenerateNothing \/ GenerateSkipNoIp \/ GeneratePlace
    \/ GenerateError \/ GenerateNotAMapping \/ GenerateReturn

(***************************************************************************)
(* Locating and loading the input file: HardwareAssessment.__init__ with   *)
(* its main(), and InventoryGenerator.load_discovered_devices with its     *)
(* main().                                                                 *)
(***************************************************************************)
\* a file name, in the three parts a glob pattern prefix*suffix looks at
FileName(prefix, stem, suffix) == [prefix |-> prefix, stem |-> stem, suffix |-> suffix]

DISCOVERY_PREFIX == "network_discovery_"
ASSESSMENT_PREFIX == "hardware_assessment_"
JSON_SUFFIX == ".json"

FileNames ==
    { FileName(DISCOVERY_PREFIX, "a", JSON_SUFFIX),
      FileName(DISCOVERY_PREFIX, "b", JSON_SUFFIX),
      FileName(ASSESSMENT_PREFIX, "a", JSON_SUFFIX),
      FileName("notes_", "a", ".txt") }

\* None in the place of a path
NoPath == FileName("", "", "")

\* a path that names no file
MissingFile == FileName("missing_", "a", JSON_SUFFIX)

\* what a file holds: a list of devices, the empty list, or no JSON at all
Contents == {"devices", "empty", "invalid"}

FileStates == [mtime : 1..MaxMtime, content : Contents]

Directories == UNION { [names -> FileStates] : names \in SUBSET FileNames }

\* directory.glob(prefix + "*.json")
Glob(directory, prefix) ==
    { f \in DOMAIN directory : f.prefix = prefix /\ f.suffix = JSON_SUFFIX }

\* mutant: the file modified first is a candidate
Latest_Oldest(directory, candidates) ==
    { f \in candidates :
        \A g \in candidates : directory[g].mtime >= directory[f].mtime }

\* max(files, key=st_mtime): the files max can return (with equal times it
\* returns the first in glob order, which the file system decides)
Latest(directory, candidates) ==
    { f \in candidates :
        \A g \in candidates : directory[g].mtime <= directory[f].mtime }

\* json.load of a file: the list it yields, "raises" when it is no JSON
JsonLoad(directory, f) ==
    IF directory[f].content = "invalid" THEN "raises" ELSE directory[f].content

InInit ==
    /\ in_entry \in {"assessment", "inventory"}
    /\ input_dir_exists \in BOOLEAN
    /\ dir_files \in Directories
    /\ arg_file \in FileNames \cup {MissingFile, NoPath}
    \* HardwareAssessment.__init__ creates its directory; the generator
    \* takes no file argument; a directory that does not exist holds nothing
    /\ in_entry = "assessment" => input_dir_exists
    /\ in_entry = "inventory" => arg_file = NoPath
    /\ ~input_dir_exists => dir_files = <<>>
    /\ inventory_file = NoPath
    /\ in_devices = "unset"
    /\ in_loaded = "unset"
    /\ exit_status = "running"
    /\ in_pc = "find"

InIdle ==
    /\ in_entry = "none"
    /\ input_dir_exists = FALSE
    /\ dir_files = <<>>
    /\ arg_file = NoPath
    /\ inventory_file = NoPath
    /\ in_devices = "unset"
    /\ in_loaded = "unset"
    /\ exit_status = "running"
    /\ in_pc = "idle"

\* what no step of this component changes
InOthers == UNCHANGED <<hn_vars, d_vars, a_vars, g_vars, c_vars, p_vars>>

InFrame ==
    /\ UNCHANGED <<in_entry, input_dir_exists, dir_files, arg_file>>
    /\ InOthers

\* _find_inventory_file: an explicit file is returned as it is
FindInventoryGiven ==
    /\ in_pc = "find" /\ in_entry = "assessment"
    /\ arg_file # NoPath
    /\ inventory_file' = arg_file
    /\ in_pc' = "load"
    /\ UNCHANGED <<in_devices, in_loaded, exit_status>>
    /\ InFrame

\* _find_inventory_file: the latest network_discovery_*.json of the directory
FindInventoryLatest ==
    /\ in_pc = "find" /\ in_entry = "assessment"
    /\ arg_file = NoPath
    /\ Glob(dir_files, DISCOVERY_PREFIX) # {}
    /\ inventory_file' \in Latest(dir_files, Glob(dir_files, DISCOVERY_PREFIX))
    /\ in_pc' = "load"
    /\ UNCHANGED <<in_devices, in_loaded, exit_status>>
    /\ InFrame

\* _find_inventory_file: no such file, None is returned
FindInventoryNone ==
    /\ in_pc = "find" /\ in_entry = "assessment"
    /\ arg_file = NoPath
    /\ Glob(dir_files, DISCOVERY_PREFIX) = {}
    /\ inventory_file' = NoPath
    /\ in_pc' = "load"
    /\ UNCHANGED <<in_devices, in_loaded, exit_status>>
    /\ InFrame

\* _load_inventory: no file, or the file does not exist: []
LoadInventoryNotFound ==
    /\ in_pc = "load" /\ in_entry = "assessment"
    /\ inventory_file = NoPath \/ inventory_file \notin DOMAIN dir_files
    /\ in_devices' = "empty"
    /\ in_pc' = "main"
    /\ UNCHANGED <<inventory_file, in_loaded, exit_status>>
    /\ InFrame

\* _load_inventory: the file is read; [] when json.load raises
LoadInventory ==
    /\ in_pc = "load" /\ in_entry = "assessment"
    /\ inventory_file # NoPath /\ inventory_file \in DOMAIN dir_files
    /\ in_devices' = IF JsonLoad(dir_files, inventory_file) = "raises"
                     THEN "empty" ELSE JsonLoad(dir_files, inventory_file)
    /\ in_pc' = "main"
    /\ UNCHANGED <<inventory_file, in_loaded, exit_status>>
    /\ InFrame

\* main() of the assessment with nothing loaded: assess_all_devices has no
\* entry to handle, "No devices were successfully assessed" is printed and
\* main() returns
MainAssessNothing ==
    /\ in_pc = "main" /\ in_entry = "assessment"
    /\ in_devices = "empty"
    /\ exit_status' = "zero"
    /\ in_pc' = "exited"
    /\ UNCHANGED <<inventory_file, in_devices, in_loaded>>
    /\ InFrame

\* main() of the assessment with devices loaded: assess_all_devices runs
MainAssessDevices ==
    /\ in_pc = "main" /\ in_entry = "assessment"
    /\ in_devices = "devices"
    /\ in_pc' = "assessing"
    /\ UNCHANGED <<inventory_file, in_devices, in_loaded, exit_status>>
    /\ InFrame

\* what load_discovered_devices does with the latest of the candidates
LoadLatest(candidates) ==
    \E latest_file \in Latest(dir_files, candidates) :
        /\ inventory_file' = latest_file
        /\ IF JsonLoad(dir_files, latest_file) = "raises"
           THEN in_devices' = "unset" /\ in_loaded' = "false"
           ELSE /\ in_devices' = JsonLoad(dir_files, latest_file)
                /\ in_loaded' = IF JsonLoad(dir_files, latest_file) = "devices"
                                THEN "true" ELSE "false"

\* load_discovered_devices: the input directory does not exist
LoadDiscoveredNoDir ==
    /\ in_pc = "find" /\ in_entry = "inventory"
    /\ ~input_dir_exists
    /\ in_loaded' = "false"
    /\ in_pc' = "main"
    /\ UNCHANGED <<inventory_file, in_devices, exit_status>>
    /\ InFrame

\* load_discovered_devices: the latest hardware_assessment_*.json
LoadDiscoveredAssessment ==
    /\ in_pc = "find" /\ in_entry = "inventory"
    /\ input_dir_exists
    /\ Glob(dir_files, ASSESSMENT_PREFIX) # {}
    /\ LoadLatest(Glob(dir_files, ASSESSMENT_PREFIX))
    /\ in_pc' = "main"
    /\ UNCHANGED exit_status
    /\ InFrame

\* load_discovered_devices: no assessment file, the latest
\* network_discovery_*.json
LoadDiscoveredDiscovery ==
    /\ in_pc = "find" /\ in_entry = "inventory"
    /\ input_dir_exists
    /\ Glob(dir_files, ASSESSMENT_PREFIX) = {}
    /\ Glob(dir_files, DISCOVERY_PREFIX) # {}
    /\ LoadLatest(Glob(dir_files, DISCOVERY_PREFIX))
    /\ in_pc' = "main"
    /\ UNCHANGED exit_status
    /\ InFrame

\* load_discovered_devices: neither kind of file
LoadDiscoveredNone ==
    /\ in_pc = "find" /\ in_entry = "inventory"
    /\ input_dir_exists
    /\ Glob(dir_files, ASSESSMENT_PREFIX) = {}
    /\ Glob(dir_files, DISCOVERY_PREFIX) = {}
    /\ in_loaded' = "false"
    /\ in_pc' = "main"
    /\ UNCHANGED <<inventory_file, in_devices, exit_status>>
    /\ InFrame

\* main() of the generator: "Failed to load discovered devices", sys.exit(1)
MainGeneratorExit ==
    /\ in_pc = "main" /\ in_entry = "inventory"
    /\ in_loaded = "false"
    /\ exit_status' = "nonzero"
    /\ in_pc' = "exited"
    /\ UNCHANGED <<inventory_file, in_devices, in_loaded>>
    /\ InFrame

\* main() of the generator: devices are loaded, generate_inventory runs
MainGeneratorDevices ==
    /\ in_pc = "main" /\ in_entry = "inventory"
    /\ in_loaded = "true"
    /\ in_pc' = "generating"
    /\ UNCHANGED <<inventory_file, in_devices, in_loaded, exit_status>>
    /\ InFrame

InNext ==
    \/ FindInventoryGiven \/ FindInventoryLatest \/ FindInventoryNone
    \/ LoadInventoryNotFound \/ LoadInventory
    \/ MainAssessNothing \/ MainAssessDevices
    \/ LoadDiscoveredNoDir \/ LoadDiscoveredAssessment
    \/ LoadDiscoveredDiscovery \/ LoadDiscoveredNone
    \/ MainGeneratorExit \/ MainGeneratorDevices

(***************************************************************************)
(* The classifier on one device: _determine_os_type, then                  *)
(* _determine_device_role.                                                 *)
(***************************************************************************)
\* hostnames with a networking keyword, a storage keyword, both, or none
T_switch == <<"s","w","i","t","c","h">>
T_nas_upper == <<"N","A","S","-","1">>
T_backup_gw == <<"b","a","c","k","u","p","-","g","a","t","e","w","a","y">>
T_web == <<"w","e","b">>

ClassifyHostnames ==
    { Absent, NoneVal, Str(T_switch), Str(T_nas_upper), Str(T_backup_gw), Str(T_web) }

\* operating_system.type: absent, null, or a text
T_Windows_mixed == <<"W","i","n","d","o","w","s">>
T_network_devices == <<"n","e","t","w","o","r","k","_","d","e","v","i","c","e","s">>
T_other == <<"o","t","h","e","r">>

ClassifyOsTypes ==
    { Absent, NoneVal, Str(T_linux), Str(T_Windows_mixed), Str(T_macos),
      Str(T_network_devices), Str(T_other), Str(T_unknown) }

\* the open ports a classified device may list
ClassifyPorts == {SSH_PORT, RDP_PORT, RDP_ALT_PORT, HTTP_PORT, MYSQL_PORT}

ClassifyHardware ==
    { NoHardware, NullHardware, Hardware("absent", "absent", "absent"),
      Hardware("true", "absent", "absent"), Hardware("false", "absent", "absent") }

ClassifyDevices ==
    { Device(h, IP_A, t, p, hw) :
        h \in ClassifyHostnames, t \in ClassifyOsTypes,
        p \in {NoPorts} \cup { Ports(S) : S \in SUBSET ClassifyPorts },
        hw \in ClassifyHardware }

CInit ==
    /\ c_device \in ClassifyDevices
    /\ c_os_type = "unset"
    /\ c_role = "unset"
    /\ c_pc = "os"

CIdle ==
    /\ c_device = NotAMapping
    /\ c_os_type = "unset"
    /\ c_role = "unset"
    /\ c_pc = "idle"

\* what no step of the classifier changes
COthers == UNCHANGED <<hn_vars, d_vars, a_vars, g_vars, in_vars, p_vars>>

\* _determine_os_type returns a family
ClassifyOs ==
    /\ c_pc = "os"
    /\ ~os_type_raises(c_device)
    /\ c_os_type' = determine_os_type(c_device)
    /\ c_pc' = "role"
    /\ UNCHANGED <<c_device, c_role>>
    /\ COthers

\* _determine_os_type raises on a null type
ClassifyOsRaises ==
    /\ c_pc = "os"
    /\ os_type_raises(c_device)
    /\ c_os_type' = "raised"
    /\ c_pc' = "role"
    /\ UNCHANGED <<c_device, c_role>>
    /\ COthers

\* _determine_device_role returns a role
ClassifyRole ==
    /\ c_pc = "role"
    /\ ~device_role_raises(c_device)
    /\ c_role' = determine_device_role(c_device)
    /\ c_pc' = "done"
    /\ UNCHANGED <<c_device, c_os_type>>
    /\ COthers

\* _determine_device_role raises on a null hostname or a null hardware
ClassifyRoleRaises ==
    /\ c_pc = "role"
    /\ device_role_raises(c_device)
    /\ c_role' = "raised"
    /\ c_pc' = "done"
    /\ UNCHANGED <<c_device, c_os_type>>
    /\ COthers

CNext == ClassifyOs \/ ClassifyOsRaises \/ ClassifyRole \/ ClassifyRoleRaises

(***************************************************************************)
(* One assessment method on one host: _assess_via_ssh command by command,  *)
(* and _assess_via_basic_scan over every set of open ports.                *)
(***************************************************************************)
\* the commands of _assess_via_ssh, in the order they are run
Queries == <<"cpu", "memory", "disk", "os", "virt", "docker">>

\* what a command meets: text on standard output, text on standard error
\* only, no text at all, or exec_command raises
QueryOutcomes == {"stdout", "stderr", "silent", "raises"}

\* _ssh_exec: output if output else error
ssh_exec(outcome) ==
    CASE outcome = "stdout" -> "output"
      [] outcome = "stderr" -> "error"
      [] OTHER -> "empty"

\* a value parsed out of the text of a command: the marker lines are in the
\* command's output only
Parsed(text) == IF text = "output" THEN "value" ELSE "null"

\* bool(text)
NonEmpty(text) == text # "empty"

NoSshAssessment ==
    [ok |-> FALSE, assessment_method |-> "none", os_type |-> "none",
     cpu |-> "null", memory |-> "null", storage |-> "null", os_name |-> "null",
     virtualization_support |-> FALSE, docker_installed |-> FALSE]

\* _assess_via_ssh, from the connection to the compiled assessment
ssh_assessment(connect, queries) ==
    IF ~PARAMIKO_AVAILABLE \/ ~connect
            \/ \E q \in Range(Queries) : queries[q] = "raises"
    THEN NoSshAssessment
    ELSE [ok |-> TRUE, assessment_method |-> "ssh", os_type |-> "linux",
          cpu |-> Parsed(ssh_exec(queries["cpu"])),
          memory |-> Parsed(ssh_exec(queries["memory"])),
          storage |-> IF ssh_exec(queries["disk"]) = "output" THEN "disks" ELSE "no disks",
          os_name |-> Parsed(ssh_exec(queries["os"])),
          virtualization_support |-> NonEmpty(ssh_exec(queries["virt"])),
          docker_installed |-> NonEmpty(ssh_exec(queries["docker"]))]

NoQueries == [q \in Range(Queries) |-> "silent"]

PInit ==
    /\ p_method \in {"ssh", "basic_scan"}
    /\ p_connect \in BOOLEAN
    /\ p_queries \in [Range(Queries) -> QueryOutcomes]
    /\ p_env \in [open : SUBSET Range(common_ports), ssh_ok : {FALSE},
                  winrm_ok : {FALSE}, alive : BOOLEAN]
    /\ p_method = "ssh" => p_env = NoEnv
    /\ p_method = "basic_scan" => (p_queries = NoQueries /\ ~p_connect)
    /\ p_result = NoSshAssessment
    /\ p_pc = "call"
    \* the rest of the assessment engine is not run
    /\ PARAMIKO_AVAILABLE \in BOOLEAN
    /\ PARAMIKO_AVAILABLE \/ (p_queries = NoQueries /\ ~p_connect)
    /\ WMI_AVAILABLE = FALSE
    /\ devices = <<>>
    /\ assessed_devices = <<>>
    /\ a_idx = 1
    /\ a_last = NothingTried
    /\ a_outcomes = <<>>
    /\ a_artifact = NoFile
    /\ a_pc = "idle"

PIdle ==
    /\ p_method = "none"
    /\ p_connect = FALSE
    /\ p_queries = NoQueries
    /\ p_env = NoEnv
    /\ p_result = NoSshAssessment
    /\ p_pc = "idle"

\* what no step of a method changes
POthers ==
    /\ UNCHANGED <<hn_vars, d_vars, a_vars, g_vars, in_vars, c_vars>>
    /\ UNCHANGED <<p_method, p_connect, p_queries, p_env>>

\* _assess_via_ssh without paramiko, or ssh.connect raises: None
SshNoSession ==
    /\ p_pc = "call" /\ p_method = "ssh"
    /\ ~PARAMIKO_AVAILABLE \/ ~p_connect
    /\ p_result' = ssh_assessment(p_connect, p_queries)
    /\ p_pc' = "done"
    /\ POthers

\* _assess_via_ssh: a command raises; the except clause closes the session
\* and returns None
SshQueryRaises ==
    /\ p_pc = "call" /\ p_method = "ssh"
    /\ PARAMIKO_AVAILABLE /\ p_connect
    /\ \E q \in Range(Queries) : p_queries[q] = "raises"
    /\ p_result' = ssh_assessment(p_connect, p_queries)
    /\ p_pc' = "done"
    /\ POthers

\* _assess_via_ssh: every command returns; the assessment is compiled
SshAssess ==
    /\ p_pc = "call" /\ p_method = "ssh"
    /\ PARAMIKO_AVAILABLE /\ p_connect
    /\ \A q \in Range(Queries) : p_queries[q] # "raises"
    /\ p_result' = ssh_assessment(p_connect, p_queries)
    /\ p_pc' = "done"
    /\ POthers

\* _assess_via_basic_scan: ping fails, None
BasicScanDead ==
    /\ p_pc = "call" /\ p_method = "basic_scan"
    /\ ~p_env.alive
    /\ p_result' = assess_via_basic_scan(p_env)
    /\ p_pc' = "done"
    /\ POthers

\* _assess_via_basic_scan: the common ports are checked and the OS guessed
BasicScan ==
    /\ p_pc = "call" /\ p_method = "basic_scan"
    /\ p_env.alive
    /\ p_result' = assess_via_basic_scan(p_env)
    /\ p_pc' = "done"
    /\ POthers

PNext ==
    \/ SshNoSession \/ SshQueryRaises \/ SshAssess
    \/ BasicScanDead \/ BasicScan

(***************************************************************************)
(* Specifications: one per component; the other components stay idle.      *)
(***************************************************************************)
InitHostname == HnInit /\ DIdle /\ AIdle /\ GIdle /\ InIdle /\ CIdle /\ PIdle

SpecHostname == InitHostname /\ [][HnNext]_vars

InitDiscovery == DInit /\ HnIdle /\ AIdle /\ GIdle /\ InIdle /\ CIdle /\ PIdle

SpecDiscovery == InitDiscovery /\ [][DNext]_vars

InitAssessment == AInit /\ HnIdle /\ DIdle /\ GIdle /\ InIdle /\ CIdle /\ PIdle

SpecAssessment == InitAssessment /\ [][ANext]_vars

InitInventory == GInit /\ HnIdle /\ DIdle /\ AIdle /\ InIdle /\ CIdle /\ PIdle

SpecInventory == InitInventory /\ [][GNext]_vars

InitInput == InInit /\ HnIdle /\ DIdle /\ AIdle /\ GIdle /\ CIdle /\ PIdle

SpecInput == InitInput /\ [][InNext]_vars

InitClassify == CInit /\ HnIdle /\ DIdle /\ AIdle /\ GIdle /\ InIdle /\ PIdle

SpecClassify == InitClassify /\ [][CNext]_vars

InitProbe == PInit /\ HnIdle /\ DIdle /\ GIdle /\ InIdle /\ CIdle

SpecProbe == InitProbe /\ [][PNext]_vars

(***************************************************************************)
(* C8: hostname normalization is idempotent: normalizing the result of     *)
(* _safe_hostname(h, ip) again with the same ip returns the same key, for  *)
(* every hostname h (sentinel-with-suffix and IP fallback included).       *)
(***************************************************************************)
C8_Idempotent == hn_pc = "twice" => hn_out2 = hn_out

(***************************************************************************)
(* C9: a hostname whose normalized first label starts with a digit gains   *)
(* the prefix host_, and no key produced by _safe_hostname starts with a   *)
(* digit.                                                                  *)
(***************************************************************************)
C9_DigitLabel ==
    /\ Truthy(hn_in)
    /\ Lower(hn_in.s) # UNKNOWN_LOWER
    /\ SafeName(FirstLabel(hn_in.s, ".")) # <<>>
    /\ IsDigit(SafeName(FirstLabel(hn_in.s, "."))[1])

C9_DigitPrefix ==
    hn_pc \in {"once", "twice"} =>
        /\ hn_out # <<>>
        /\ ~IsDigit(hn_out[1])
        /\ C9_DigitLabel =>
              hn_out = HOST_PREFIX \o SafeName(FirstLabel(hn_in.s, "."))

C9_Witness ==
    /\ hn_pc = "once"
    /\ hn_in = Str(<<"3", "a">>)
    /\ hn_out = <<"h","o","s","t","_","3","a">>

(***************************************************************************)
(* C1: after the enabled methods have run, the discovered device list and  *)
(* the saved artifact hold at most one record per ip_address.              *)
(***************************************************************************)
OneRecordPerIp(list) ==
    \A i, j \in DOMAIN list :
        list[i].ip_address = list[j].ip_address => i = j

C1_NoDuplicateIp ==
    /\ OneRecordPerIp(discovered_devices)
    /\ d_artifact # NoFile => OneRecordPerIp(d_artifact)

(***************************************************************************)
(* C2: when two methods report the same ip_address, the list holds one     *)
(* record for it, named after the higher-priority method (scan > arp >     *)
(* dhcp), with that method's hostname and with the fields of both reports. *)
(***************************************************************************)
Priority(m) == CASE m = "nmap" -> 3 [] m = "arp" -> 2 [] OTHER -> 1

ReportsOf(ip) == { r \in Range(d_reports) : r.ip_address = ip }

TopReports(ip) ==
    { r \in ReportsOf(ip) :
        \A q \in ReportsOf(ip) :
            Priority(q.discovery_method) <= Priority(r.discovery_method) }

C2_MergedByPriority ==
    \A ip \in Addresses :
        (\E p, q \in ReportsOf(ip) : p.discovery_method # q.discovery_method) =>
            \E i \in DOMAIN discovered_devices :
                LET r == discovered_devices[i]
                IN  /\ r.ip_address = ip
                    /\ \A j \in DOMAIN discovered_devices :
                          discovered_devices[j].ip_address = ip => j = i
                    /\ \E t \in TopReports(ip) :
                          /\ r.discovery_method = t.discovery_method
                          /\ r.hostname = t.hostname
                    /\ r.has_scan = (\E q \in ReportsOf(ip) : q.has_scan)

(***************************************************************************)
(* C3: every record the ARP method appended has an address inside the      *)
(* subnet that is neither its network nor its broadcast address (for every *)
(* prefix length, the two longest included).                               *)
(***************************************************************************)
C3_ArpInsideSubnet ==
    \A i \in DOMAIN discovered_devices :
        LET r == discovered_devices[i]
        IN  r.discovery_method = "arp" =>
              /\ r.ip_address \div BlockSize(subnet) = subnet.addr \div BlockSize(subnet)
              /\ r.ip_address % BlockSize(subnet) # 0
              /\ r.ip_address % BlockSize(subnet) # BlockSize(subnet) - 1

C3_Witness ==
    /\ subnet.prefix = 0
    /\ \E i \in DOMAIN discovered_devices :
          discovered_devices[i].discovery_method = "arp"

(***************************************************************************)
(* Reading the history of the last assessed entry.                         *)
(***************************************************************************)
\* the records assessed_devices holds for the entry at position idx
RecordsOf(idx) ==
    { assessed_devices[i].assessment : i \in
        { k \in DOMAIN assessed_devices : assessed_devices[k].src = idx } }

LastAssessed == a_last.idx > 0 /\ a_last.attempts # <<>>

Rank(m) == CASE m = "ssh" -> 1 [] m = "winrm" -> 2 [] OTHER -> 3

\* the method is not reached at all: capability missing or port closed
Unreached(m, env) ==
    CASE m = "ssh" -> ~(PARAMIKO_AVAILABLE /\ SSH_PORT \in env.open)
      [] m = "winrm" -> ~(WMI_AVAILABLE /\ WINRM_PORT \in env.open)
      [] OTHER -> FALSE

\* the method gives no assessment: not reached, or its introspection failed
GivesNothing(m, env) ==
    \/ Unreached(m, env)
    \/ m = "ssh" /\ ~env.ssh_ok
    \/ m = "winrm" /\ ~env.winrm_ok

\* the populated fields of an assessment are those of its one method
FieldsOfOneMethod(a) ==
    CASE a.assessment_method = "ssh" ->
            a.os_type = "linux" /\ a.hardware /\ a.software /\ ~a.network
      [] a.assessment_method = "winrm" ->
            a.os_type = "windows" /\ a.hardware /\ a.software /\ ~a.network
      [] a.assessment_method = "basic_scan" ->
            ~a.hardware /\ ~a.software /\ a.network
      [] OTHER -> FALSE

(***************************************************************************)
(* C4: assess_device tries SSH, WinRM and the basic scan in that order, a  *)
(* later method only after every earlier one was unreachable or returned   *)
(* nothing, none after a success, and the result names the one method that *)
(* produced all its populated fields.                                      *)
(***************************************************************************)
C4_StrictOrder ==
    LastAssessed =>
        LET at == a_last.attempts
            env == a_last.env
            final == at[Len(at)]
        IN  /\ \A i, j \in DOMAIN at :
                  i < j => Rank(at[i].method) < Rank(at[j].method)
            /\ \A i \in DOMAIN at : i < Len(at) => ~at[i].ok
            /\ \A j \in DOMAIN at : \A m \in {"ssh", "winrm"} :
                  Rank(m) < Rank(at[j].method) =>
                      \/ Unreached(m, env)
                      \/ \E i \in 1..(j - 1) : at[i].method = m /\ ~at[i].ok
            /\ IF final.ok
               THEN /\ Cardinality(RecordsOf(a_last.idx)) = 1
                    /\ \A a \in RecordsOf(a_last.idx) :
                          /\ a.assessment_method = final.method
                          /\ FieldsOfOneMethod(a)
               ELSE /\ final.method = "basic_scan"
                    /\ RecordsOf(a_last.idx) = {}

C4_Witness ==
    /\ LastAssessed
    /\ Len(a_last.attempts) = 3
    /\ a_last.attempts[3].ok
    /\ \E a \in RecordsOf(a_last.idx) : a.assessment_method = "basic_scan"

(***************************************************************************)
(* C5: a device that SSH and WinRM cannot introspect (port closed,         *)
(* capability absent or introspection failed) but that answers ping gets   *)
(* an assessment with assessment_method basic_scan and without hardware    *)
(* and software sections.                                                  *)
(***************************************************************************)
C5_BasicScanFallback ==
    ( /\ LastAssessed
      /\ GivesNothing("ssh", a_last.env)
      /\ GivesNothing("winrm", a_last.env)
      /\ a_last.env.alive ) =>
        /\ RecordsOf(a_last.idx) # {}
        /\ \A a \in RecordsOf(a_last.idx) :
              /\ a.assessment_method = "basic_scan"
              /\ ~a.hardware
              /\ ~a.software

C5_Witness ==
    /\ LastAssessed
    /\ PARAMIKO_AVAILABLE /\ SSH_PORT \in a_last.env.open /\ ~a_last.env.ssh_ok
    /\ a_last.env.alive
    /\ \E a \in RecordsOf(a_last.idx) : a.assessment_method = "basic_scan"

(***************************************************************************)
(* C6: a device that SSH and WinRM gave nothing for and that does not      *)
(* answer ping leaves no record in assessed_devices (no failed or none     *)
(* marker either), and the loop goes on with the next entry.               *)
(***************************************************************************)
C6_DroppedWhenDead ==
    /\ \A i \in DOMAIN assessed_devices :
          assessed_devices[i].assessment.assessment_method
              \in {"ssh", "winrm", "basic_scan"}
    /\ ( /\ LastAssessed
         /\ GivesNothing("ssh", a_last.env)
         /\ GivesNothing("winrm", a_last.env)
         /\ ~a_last.env.alive ) =>
            /\ RecordsOf(a_last.idx) = {}
            /\ a_pc \in {"loop", "returned", "done"}
            /\ a_idx = a_last.idx + 1
            /\ a_pc # "loop" => a_idx = Len(devices) + 1

C6_Witness ==
    /\ Len(a_outcomes) = 2
    /\ a_outcomes[1] = "none"
    /\ a_outcomes[2] = "basic_scan"
    /\ RecordsOf(1) = {}
    /\ RecordsOf(2) # {}

(***************************************************************************)
(* C7: an exception raised while one entry of the loaded list is handled   *)
(* (an entry that is not a mapping included) ends only that entry: the     *)
(* call is never aborted and returns after every entry was handled.        *)
(***************************************************************************)
C7_EntryErrorsContained ==
    /\ a_pc # "crashed"
    /\ a_pc \in {"returned", "done"} => a_idx = Len(devices) + 1

(***************************************************************************)
(* C10: host keys are unique per device: two devices with different        *)
(* ip_address values get different host keys, so no device's entry         *)
(* overwrites another's and the tree holds one host per placed device.     *)
(***************************************************************************)
PlacedLog == { i \in DOMAIN g_log : g_log[i].outcome = "placed" }

KeysIn(groups) == UNION { DOMAIN inventory[g] : g \in groups }

C10_UniqueKeyPerDevice ==
    /\ \A i, j \in PlacedLog :
          g_log[i].ip_address # g_log[j].ip_address => g_log[i].key # g_log[j].key
    /\ \A i \in PlacedLog :
          \E g \in OsGroups :
              /\ g_log[i].key \in DOMAIN inventory[g]
              /\ inventory[g][g_log[i].key].ansible_host = g_log[i].ip_address

(***************************************************************************)
(* C11: after generate_inventory, every host key present in the tree       *)
(* appears in exactly one of the five OS-family groups, never in two.      *)
(***************************************************************************)
OsGroupsOf(key) == { g \in OsGroups : key \in DOMAIN inventory[g] }

C11_OneOsGroupPerKey ==
    \A key \in KeysIn(Groups) : Cardinality(OsGroupsOf(key)) = 1

(***************************************************************************)
(* C12: every input device that has an ip_address is placed into an        *)
(* OS-family group, whatever its hostname (absent, null, 'Unknown') and    *)
(* whether or not it carries assessment data; none is skipped.             *)
(***************************************************************************)
C12_EveryAddressedDevicePlaced ==
    \A i \in DOMAIN g_log :
        g_log[i].ip_address # <<>> =>
            /\ g_log[i].outcome = "placed"
            /\ OsGroupsOf(g_log[i].key) # {}

(***************************************************************************)
(* C13: after generate_inventory, every host key appears in at most one    *)
(* tier/role group, and a key placed in 'ungrouped' appears in no          *)
(* tier/role group.                                                        *)
(***************************************************************************)
RoleGroupsOf(key) == { g \in RoleGroups : key \in DOMAIN inventory[g] }

C13_AtMostOneRoleGroup ==
    \A key \in KeysIn(Groups) :
        /\ Cardinality(RoleGroupsOf(key)) <= 1
        /\ key \in DOMAIN inventory[Ungrouped] => RoleGroupsOf(key) = {}

(***************************************************************************)
(* C14: every host entry of an OS-family group carries ansible_host equal  *)
(* to the ip_address of the device placed under that key, with transport   *)
(* winrm (certificate validation 'ignore') in the windows family and       *)
(* transport ssh in every other family, network_devices and other          *)
(* included.                                                               *)
(***************************************************************************)
C14_TransportFromOsFamily ==
    \A g \in OsGroups :
        \A key \in DOMAIN inventory[g] :
            LET host_vars == inventory[g][key]
            IN  /\ \E i \in PlacedLog :
                      /\ g_log[i].key = key
                      /\ g_log[i].os_type = g[2]
                      /\ g_log[i].ip_address = host_vars.ansible_host
                /\ IF g[2] = "windows"
                   THEN /\ host_vars.ansible_connection = "winrm"
                        /\ host_vars.ansible_winrm_server_cert_validation = "ignore"
                   ELSE host_vars.ansible_connection = "ssh"

(***************************************************************************)
(* C15: started with no explicit input file, the assessment loads the most *)
(* recently modified file matching network_discovery_*.json in its         *)
(* directory; an explicit input file is used whatever other discovery      *)
(* files exist and however recent they are.                                *)
(***************************************************************************)
DiscoveryFiles ==
    { f \in DOMAIN dir_files :
        f.prefix = "network_discovery_" /\ f.suffix = ".json" }

C15_InputSelection ==
    (in_entry = "assessment" /\ in_pc # "find") =>
        /\ arg_file # NoPath => inventory_file = arg_file
        /\ (arg_file = NoPath /\ DiscoveryFiles # {}) =>
              /\ inventory_file \in DiscoveryFiles
              /\ \A g \in DiscoveryFiles :
                    dir_files[g].mtime <= dir_files[inventory_file].mtime
        /\ (in_pc # "load" /\ inventory_file \in DOMAIN dir_files
                /\ dir_files[inventory_file].content # "invalid") =>
              in_devices = dir_files[inventory_file].content

C15_Witness ==
    /\ in_entry = "assessment" /\ in_pc = "assessing"
    /\ arg_file = NoPath
    /\ \E f, g \in DiscoveryFiles :
          /\ dir_files[g].mtime < dir_files[f].mtime
          /\ inventory_file = f
          /\ dir_files[g].content = "devices"
    /\ in_devices = "devices"

(***************************************************************************)
(* C16: when no usable input file is located, the run aborts with a        *)
(* non-zero exit status, at the assessment entry point (no discovery file  *)
(* found or loadable) and at the inventory generator entry point (no       *)
(* assessment or discovery file found, or the file unreadable or empty).   *)
(***************************************************************************)
NoUsableInput ==
    \/ inventory_file \notin DOMAIN dir_files
    \/ dir_files[inventory_file].content = "invalid"
    \/ in_entry = "inventory" /\ dir_files[inventory_file].content = "empty"

C16_AbortsNonZero ==
    (in_pc \in {"assessing", "generating", "exited"} /\ NoUsableInput) =>
        (in_pc = "exited" /\ exit_status = "nonzero")

(***************************************************************************)
(* C17: a discovery method whose backing capability is absent (python-nmap *)
(* for the scan, scapy for ARP, no lease file for DHCP) is skipped without *)
(* raising: the call returns an empty result, leaves the discovered device *)
(* list unchanged, and main() goes on to the next method.                  *)
(***************************************************************************)
NextMethod(m) ==
    CASE m = "nmap" -> "arp"
      [] m = "arp" -> "dhcp"
      [] OTHER -> "finish"

CapabilityAbsent(m) ==
    \/ m = "nmap" /\ ~NMAP_AVAILABLE
    \/ m = "arp" /\ ~SCAPY_AVAILABLE
    \/ m = "dhcp" /\ ~lease_file_exists

C17_UnavailableSkipped ==
    [][ (d_pc \in d_run /\ CapabilityAbsent(d_pc)) =>
            /\ d_ret' = "empty"
            /\ discovered_devices' = discovered_devices
            /\ d_pc' = NextMethod(d_pc) ]_vars

C17_Witness ==
    /\ d_run = {"nmap", "arp", "dhcp"}
    /\ ~NMAP_AVAILABLE /\ SCAPY_AVAILABLE /\ ~lease_file_exists
    /\ d_pc = "done"
    /\ \E i \in DOMAIN discovered_devices :
          discovered_devices[i].discovery_method = "arp"
    /\ d_artifact = discovered_devices

(***************************************************************************)
(* C18: during the ARP scan of a subnet, a probe that fails for one target *)
(* (the request or the hostname lookup raises) does not abort the scan:    *)
(* every remaining address of the subnet is still probed.                  *)
(***************************************************************************)
C18_FailedProbeDoesNotAbort ==
    d_probes.failed # {} =>
        ArpTargets(subnet) \subseteq (d_probes.probed \cup d_probes.failed)

(***************************************************************************)
(* C19: assess_all_devices never modifies the loaded records: the loaded   *)
(* list is the same before and after, and each assessed record contains    *)
(* every field of the original device with its original value, plus the    *)
(* fields produced by the assessment.                                      *)
(***************************************************************************)
KeepsOriginalFields ==
    \A i \in DOMAIN assessed_devices :
        LET device_info == assessed_devices[i]
            device == devices[device_info.src]
        IN  /\ device_info.ip_address = device.ip_address
            /\ device.fields \subseteq device_info.fields
            /\ AssessmentFields(device_info.assessment) \subseteq device_info.fields

C19_EnrichmentIsAdditive ==
    /\ [] KeepsOriginalFields
    /\ [][devices' = devices]_vars

(***************************************************************************)
(* C20: in every record of the assessed device list, whichever method      *)
(* produced it (ssh, winrm or basic_scan), operating_system.type is one of *)
(* linux, windows, macos, network_devices, other.                          *)
(***************************************************************************)
C20_OsTypeInFamilies ==
    \A i \in DOMAIN assessed_devices :
        /\ assessed_devices[i].assessment.assessment_method
              \in {"ssh", "winrm", "basic_scan"}
        /\ assessed_devices[i].assessment.os_type
              \in {"linux", "windows", "macos", "network_devices", "other"}

(***************************************************************************)
(* C21: _determine_os_type returns exactly one family, by strict priority: *)
(* (1) the explicit operating_system.type when it names linux, windows or  *)
(* macos, whatever ports are open; (2) else network_devices when the type  *)
(* contains "network"; (3) else windows when 3389, 5985 or 5986 is open    *)
(* (even with 22 open), else linux when 22 is open; (4) else other.        *)
(***************************************************************************)
TypeText(device) ==
    IF device.os_type.kind = "str" THEN Lower(device.os_type.s) ELSE <<>>

NamedFamily(device) ==
    CASE TypeText(device) = <<"l","i","n","u","x">> -> "linux"
      [] TypeText(device) = <<"w","i","n","d","o","w","s">> -> "windows"
      [] TypeText(device) = <<"m","a","c","o","s">> -> "macos"
      [] OTHER -> "none"

NetworkMarked(device) ==
    Contains(TypeText(device), <<"n","e","t","w","o","r","k">>)

OpenPortsOf(device) ==
    IF device.open_ports.kind = "list" THEN device.open_ports.ports ELSE {}

NameText(device) ==
    IF device.hostname.kind = "str" THEN Lower(device.hostname.s) ELSE <<>>

NamesNetworkGear(device) ==
    \E term \in { <<"r","o","u","t","e","r">>, <<"s","w","i","t","c","h">>,
                  <<"f","w">>, <<"f","i","r","e","w","a","l","l">>,
                  <<"g","a","t","e","w","a","y">> } :
        Contains(NameText(device), term)

NamesStorageGear(device) ==
    \E term \in { <<"n","a","s">>, <<"s","a","n">>,
                  <<"s","t","o","r","a","g","e">>, <<"b","a","c","k","u","p">> } :
        Contains(NameText(device), term)

Virtualizes(device) ==
    device.hardware.kind = "dict" /\ device.hardware.virt = "true"

C22_RoleFirstMatch ==
    c_role \notin {"unset", "raised"} =>
        LET ports == OpenPortsOf(c_device)
            r1 == NamesNetworkGear(c_device)
            r2 == ~r1 /\ NamesStorageGear(c_device)
            r3 == ~r1 /\ ~r2 /\ Virtualizes(c_device)
            r4 == ~r1 /\ ~r2 /\ ~r3 /\ ports \cap {80, 443, 8080} # {}
            r5 == ~r1 /\ ~r2 /\ ~r3 /\ ~r4 /\ ports \cap {3306, 5432, 1521, 27017} # {}
        IN  /\ r1 => c_role = "network"
            /\ r2 => c_role = "storage"
            /\ r3 => c_role = "virtualization"
            /\ r4 => c_role = "cloud"
            /\ r5 => c_role = "business"
            /\ (~r1 /\ ~r2 /\ ~r3 /\ ~r4 /\ ~r5) => c_role = "ungrouped"

C22_Witness ==
    /\ c_pc = "done"
    /\ c_device.hostname = [kind |-> "str", s |-> <<"s","w","i","t","c","h">>]
    /\ {80, 3306} \subseteq OpenPortsOf(c_device)
    /\ Virtualizes(c_device)
    /\ c_role = "network"

(***************************************************************************)
(* C23: every role other than ungrouped maps, by a fixed table, to exactly *)
(* one of the four tiers, that role group exists under that tier in the    *)
(* base tree, and placement never targets a missing group and never        *)
(* changes the fixed set of groups.                                        *)
(***************************************************************************)
TierTable ==
    [network |-> "tier1_core", storage |-> "tier1_core", security |-> "tier1_core",
     virtualization |-> "tier1_core",
     automation |-> "tier2_services", monitoring |-> "tier2_services",
     identity |-> "tier2_services", secrets |-> "tier2_services",
     business |-> "tier3_applications", media |-> "tier3_applications",
     cloud |-> "tier3_applications",
     ai |-> "tier4_specialized", gaming |-> "tier4_specialized",
     security_specialized |-> "tier4_specialized"]

C23_FixedTierTable ==
    /\ \A role \in DOMAIN TierTable :
          /\ TierGroup(role) = TierTable[role]
          /\ <<TierTable[role], role>> \in DOMAIN create_base_inventory
    /\ DOMAIN inventory = DOMAIN create_base_inventory
    /\ \A i \in PlacedLog :
          g_log[i].role # "ungrouped" =>
              /\ g_log[i].role \in DOMAIN TierTable
              /\ g_log[i].key \in DOMAIN inventory[<<TierTable[g_log[i].role], g_log[i].role>>]

C23_Witness ==
    \E i \in PlacedLog :
        /\ g_log[i].role = "cloud"
        /\ g_log[i].key \in DOMAIN inventory[<<"tier3_applications", "cloud">>]
        /\ g_pc = "returned"

(***************************************************************************)
(* C24: every entry placed under a tier/role group is an empty mapping;    *)
(* the host variables are stored under the OS-family placement, and a host *)
(* with no role carries the same variables under 'ungrouped'.              *)
(***************************************************************************)
IsEmptyMapping(host_vars) ==
    /\ host_vars.ansible_host = <<>>
    /\ \A f \in DOMAIN host_vars \ {"ansible_host"} : host_vars[f] = "absent"

JustPlaced ==
    /\ Len(g_log') = Len(g_log) + 1
    /\ g_log'[Len(g_log')].outcome = "placed"

C24_VarsOnlyUnderOsFamily ==
    [][ /\ \A g \in DOMAIN inventory' :
              (g[1] \notin {"os_types", "ungrouped"}) =>
                  \A key \in DOMAIN inventory'[g] : IsEmptyMapping(inventory'[g][key])
        /\ JustPlaced =>
              LET placed == g_log'[Len(g_log')]
                  host_vars == inventory'[<<"os_types", placed.os_type>>][placed.key]
              IN  /\ host_vars.ansible_host = placed.ip_address
                  /\ placed.role = "ungrouped" =>
                        /\ placed.key \in DOMAIN inventory'[<<"ungrouped", "hosts">>]
                        /\ inventory'[<<"ungrouped", "hosts">>][placed.key] = host_vars
      ]_vars

C24_Witness ==
    /\ g_pc = "returned"
    /\ \E i, j \in PlacedLog :
          /\ g_log[i].role = "ungrouped"
          /\ g_log[i].key \in DOMAIN inventory[<<"ungrouped", "hosts">>]
          /\ inventory[<<"ungrouped", "hosts">>][g_log[i].key].cpu_cores = "4"
          /\ g_log[j].role = "network"
          /\ g_log[j].key \in DOMAIN inventory[<<"tier1_core", "network">>]

(***************************************************************************)
(* C28: placement is all-or-nothing per device: after generate_inventory   *)
(* on any device list, lists where some devices raise included, the host   *)
(* keys in the five OS-family groups are the host keys in 'ungrouped'      *)
(* together with all tier/role groups.                                     *)
(***************************************************************************)
C28_AllOrNothing ==
    UNION { DOMAIN inventory[g] : g \in { h \in DOMAIN inventory : h[1] = "os_types" } }
        = UNION { DOMAIN inventory[g] : g \in { h \in DOMAIN inventory : h[1] # "os_types" } }

C28_Witness ==
    /\ g_pc = "returned"
    /\ \E i, j \in DOMAIN g_log :
          /\ g_log[i].outcome = "error"
          /\ g_log[j].outcome = "placed"
          /\ g_log[j].role = "ungrouped"
          /\ g_log[j].key \in DOMAIN inventory[<<"ungrouped", "hosts">>]
          /\ g_log[j].key \in DOMAIN inventory[<<"os_types", g_log[j].os_type>>]


(***************************************************************************)
(* C25: the commands of the SSH assessment are independent: when the       *)
(* session is open and one command raises, the call still returns an 'ssh' *)
(* assessment, the fields of the commands that did not raise hold what     *)
(* those commands gave, and only the fields of the raising command are     *)
(* null.                                                                   *)
(***************************************************************************)
SshSessionOpen == p_method = "ssh" /\ PARAMIKO_AVAILABLE /\ p_connect

SomeQueryRaises == \E q \in Range(Queries) : p_queries[q] = "raises"

C25_QueriesIndependent ==
    (p_pc = "done" /\ SshSessionOpen /\ SomeQueryRaises) =>
        /\ p_result.ok
        /\ p_result.assessment_method = "ssh"
        /\ p_queries["cpu"] = "stdout" => p_result.cpu = "value"
        /\ p_queries["memory"] = "stdout" => p_result.memory = "value"
        /\ p_queries["os"] = "stdout" => p_result.os_name = "value"
        /\ p_queries["cpu"] = "raises" => p_result.cpu = "null"
        /\ p_queries["memory"] = "raises" => p_result.memory = "null"
        /\ p_queries["os"] = "raises" => p_result.os_name = "null"

(***************************************************************************)
(* C26: in an SSH assessment virtualization_support is true only if the    *)
(* CPU-feature command printed a matching line on its standard output, and *)
(* docker_installed is true only if the container-runtime command printed  *)
(* something on its standard output; a command that writes to standard     *)
(* error only makes neither flag true.                                     *)
(***************************************************************************)
C26_FlagsNotFabricated ==
    (p_pc = "done" /\ p_method = "ssh" /\ p_result.ok) =>
        /\ p_result.virtualization_support => p_queries["virt"] = "stdout"
        /\ p_result.docker_installed => p_queries["docker"] = "stdout"

(***************************************************************************)
(* C27: for every set of open ports among the seven common ports the basic *)
(* scan of a host that answers ping gives operating-system type windows    *)
(* when 3389 or 5985 is open, also with 22 open; otherwise linux when 22   *)
(* is open and 445 is closed; otherwise unknown.                           *)
(***************************************************************************)
BasicScanDone == p_pc = "done" /\ p_method = "basic_scan" /\ p_env.alive

ManagementOpen == RDP_PORT \in p_env.open \/ WINRM_PORT \in p_env.open

C27_BasicScanOsRule ==
    BasicScanDone =>
        /\ p_result.assessment_method = "basic_scan"
        /\ ManagementOpen => p_result.os_type = "windows"
        /\ (~ManagementOpen /\ SSH_PORT \in p_env.open /\ SMB_PORT \notin p_env.open)
               => p_result.os_type = "linux"
        /\ (~ManagementOpen /\ ~(SSH_PORT \in p_env.open /\ SMB_PORT \notin p_env.open))
               => p_result.os_type = "unknown"

C27_Witness ==
    /\ BasicScanDone
    /\ {SSH_PORT, RDP_PORT} \subseteq p_env.open
    /\ SMB_PORT \notin p_env.open
    /\ p_result.os_type = "windows"


(***************************************************************************)
(* C29: during and after one call of assess_all_devices the assessed list  *)
(* is an order-preserving subsequence of the loaded list: every record     *)
(* comes from one entry already handled and carries that entry's           *)
(* ip_address, an entry without ip_address gives no record, no entry gives *)
(* two records, and the records stand in the order of their entries.       *)
(***************************************************************************)
C29_OrderPreservingSubsequence ==
    /\ Len(assessed_devices) <= Len(devices)
    /\ \A i \in DOMAIN assessed_devices :
          LET device_info == assessed_devices[i]
          IN  /\ device_info.src \in DOMAIN devices
              /\ device_info.src < a_idx
              /\ devices[device_info.src].is_dict
              /\ devices[device_info.src].ip_address # NO_IP
              /\ device_info.ip_address = devices[device_info.src].ip_address
    /\ \A i, j \in DOMAIN assessed_devices :
          i < j => assessed_devices[i].src < assessed_devices[j].src

C29_Witness ==
    /\ a_pc = "returned"
    /\ Len(devices) = 2
    /\ Len(assessed_devices) = 2
    /\ assessed_devices[1].ip_address = devices[1].ip_address
    /\ assessed_devices[2].ip_address = devices[2].ip_address
    /\ devices[1].ip_address # devices[2].ip_address


(***************************************************************************)
(* C30: the discovered list is append-only. Every step of every method     *)
(* call, skipped and failing calls included, leaves the records already in *)
(* the list in place, unchanged and in the same order, and every record a  *)
(* method produced before it failed is in the list although the call       *)
(* returned an empty result.                                               *)
(***************************************************************************)
IsPrefixOf(older, newer) ==
    /\ Len(older) <= Len(newer)
    /\ \A i \in DOMAIN older : newer[i] = older[i]

C30_AppendOnly ==
    [][ /\ IsPrefixOf(discovered_devices, discovered_devices')
        /\ discovered_devices' = d_reports' ]_vars

C30_Witness ==
    /\ d_pc = "dhcp"
    /\ d_ret = "empty"
    /\ d_probes.failed # {}
    /\ Len(discovered_devices) = 2
    /\ discovered_devices[1].discovery_method = "nmap"
    /\ discovered_devices[2].discovery_method = "arp"

====
